---- MODULE Spec2Model ----
(***************************************************************************)
(* Model of the whagons realtime engine (package main): the SockJS         *)
(* connection handler with its two-stage session tables, the negotiation   *)
(* timer, system broadcasts, the per-tenant publication fan-out, the       *)
(* zombie reaper and DisconnectAllSessions.                                *)
(*                                                                         *)
(* Every critical section of RealtimeEngine.mutex is one action; every     *)
(* Send / Recv / Close on a transport that happens outside the lock is an  *)
(* action of its own, so the interleavings the Go scheduler allows between *)
(* goroutines are the interleavings of the actions below.                  *)
(*                                                                         *)
(* A session id names one connection: the handler is called once per       *)
(* SockJS session and uses session.ID() as the key of all three maps.      *)
(***************************************************************************)
EXTENDS Integers, Sequences, FiniteSets, TLC

\* ----------------------------------------------------------------- bounds
\* events from outside the connection handlers, over all sessions: inbound
\* frames, connections closed by the client, administrative broadcasts,
\* database notifications, reaper sweeps, calls of DisconnectAllSessions
MaxEvents == 3

\* ------------------------------------------------------------ the universe
\* session ids, in the order the connections arrive
SessionOrder == <<"s1", "s2">>
SessionIds == {SessionOrder[i] : i \in 1..Len(SessionOrder)}

\* landlord table "tenants": (name, domain, database)
TenantRows ==
    { [Name |-> "acme",    Domain |-> "acme.example",    Database |-> "acme_db"],
      [Name |-> "globex",  Domain |-> "globex.example",  Database |-> "globex_db"],
      [Name |-> "initech", Domain |-> "initech.example", Database |-> "initech_db"] }
TenantNames == {r.Name : r \in TenantRows}
Domains == {"", "acme.example", "globex.example", "initech.example", "nobody.example"}

NoExpiry == -1
\* the clock readings (time.Now()) of the connection handlers
Times == 2..3
\* the clock readings of the handshakes that are followed one at a time
Clock == 0..3
None == "none"

\* sha256 + hex of the secret part: an injective tag on the secret
SHA256Hex(secret) == <<"sha256">> \o secret

\* personal_access_tokens of each tenant database
TokenRows(tenant) ==
    CASE tenant = "acme" ->
           { [ID |-> 7, Token |-> SHA256Hex(<<"S">>), TokenableID |-> 42, ExpiresAt |-> NoExpiry],
             [ID |-> 8, Token |-> SHA256Hex(<<"T">>), TokenableID |-> 43, ExpiresAt |-> 1] }
      [] tenant = "globex" ->
           { [ID |-> 7, Token |-> SHA256Hex(<<"G">>), TokenableID |-> 50, ExpiresAt |-> NoExpiry] }
      [] OTHER -> {}

\* bearer strings, as sequences of characters
Bearers ==
    { <<>>,
      <<"7", "|", "S">>,
      <<"8", "|", "T">>,
      <<"7", "|", "G">>,
      <<"7", "S">>,
      <<"7", "|", "S", "|", "S">>,
      <<"x", "|", "S">> }

\* Authorization header: scheme prefix and the rest
AuthHeaders ==
    { [prefix |-> "", rest |-> <<>>],
      [prefix |-> "Bearer ", rest |-> <<"7", "|", "S">>],
      [prefix |-> "Bearer ", rest |-> <<>>],
      [prefix |-> "Basic ", rest |-> <<"7", "|", "G">>] }

Msgs == {"", "hi"}

\* --------------------------------------------------------- authentication
\* a split at the first "|" only (strings.SplitN(s, "|", 2))
SplitFirst(s) ==
    IF \A i \in 1..Len(s) : s[i] # "|"
    THEN <<s>>
    ELSE LET k == CHOOSE i \in 1..Len(s) : s[i] = "|" /\ \A j \in 1..(i-1) : s[j] # "|"
         IN <<SubSeq(s, 1, k-1), SubSeq(s, k+1, Len(s))>>

\* strings.Split(s, "|")
RECURSIVE Split(_)
Split(s) ==
    IF \A i \in 1..Len(s) : s[i] # "|"
    THEN <<s>>
    ELSE LET k == CHOOSE i \in 1..Len(s) : s[i] = "|" /\ \A j \in 1..(i-1) : s[j] # "|"
         IN <<SubSeq(s, 1, k-1)>> \o Split(SubSeq(s, k+1, Len(s)))

Digits == {"0", "1", "2", "3", "4", "5", "6", "7", "8", "9"}
DigitVal(c) ==
    CASE c = "0" -> 0 [] c = "1" -> 1 [] c = "2" -> 2 [] c = "3" -> 3 [] c = "4" -> 4
      [] c = "5" -> 5 [] c = "6" -> 6 [] c = "7" -> 7 [] c = "8" -> 8 [] c = "9" -> 9

RECURSIVE DecVal(_)
DecVal(s) == IF s = <<>> THEN 0 ELSE 10 * DecVal(SubSeq(s, 1, Len(s)-1)) + DigitVal(s[Len(s)])

\* strconv.Atoi: optional sign, then one or more decimal digits
Atoi(s) ==
    LET signed == Len(s) > 0 /\ s[1] \in {"+", "-"}
        body   == IF signed THEN Tail(s) ELSE s
    IN IF body # <<>> /\ \A i \in 1..Len(body) : body[i] \in Digits
       THEN [ok |-> TRUE, val |-> IF signed /\ s[1] = "-" THEN 0 - DecVal(body) ELSE DecVal(body)]
       ELSE [ok |-> FALSE, val |-> 0]

\* extractBearerToken(authHeader, queryParam)
extractBearerToken(authHeader, queryParam) ==
    IF authHeader.prefix = "Bearer "
    THEN authHeader.rest
    ELSE queryParam

\* getTenantByDomain: the landlord row with this domain, if any
getTenantByDomain(domain) ==
    IF \E r \in TenantRows : r.Domain = domain
    THEN [ok |-> TRUE, tenant |-> (CHOOSE r \in TenantRows : r.Domain = domain).Name]
    ELSE [ok |-> FALSE, tenant |-> None]

AuthFail(kind) == [ok |-> FALSE, err |-> kind, session |-> None]

\* a query that looks the token up in the stores of all tenants
queryTokenAnyTenant(tenantName, tokenID, hashedToken) ==
    {r \in UNION {TokenRows(x) : x \in TenantNames} : r.ID = tokenID /\ r.Token = hashedToken}
\* a validation that does not look at expires_at
expiredNever(token, now) == FALSE

\* SELECT ... FROM personal_access_tokens WHERE id = $1 AND token = $2, on
\* the database of the tenant
queryToken(tenantName, tokenID, hashedToken) ==
    {r \in TokenRows(tenantName) : r.ID = tokenID /\ r.Token = hashedToken}

\* token.ExpiresAt != nil && token.ExpiresAt.Before(time.Now())
expired(token, now) == token.ExpiresAt # NoExpiry /\ token.ExpiresAt < now

\* validateTokenInTenant(tenantName, db, tokenID, hashedToken) at time now
validateTokenInTenant(tenantName, tokenID, hashedToken, now) ==
    LET rows == queryToken(tenantName, tokenID, hashedToken)
    IN IF rows = {}
       THEN AuthFail("token not found")
       ELSE LET token == CHOOSE r \in rows : TRUE
            IN IF expired(token, now)
               THEN AuthFail("token expired")
               ELSE [ok |-> TRUE, err |-> None,
                     session |-> [TenantName |-> tenantName,
                                  UserID     |-> token.TokenableID,
                                  TokenID    |-> token.ID,
                                  ExpiresAt  |-> token.ExpiresAt]]

\* authenticateTokenForDomain(bearerToken, domain), with the tenant handles tdbs
authenticateTokenForDomain(bearerToken, domain, tdbs, now) ==
    LET tenantInfo == getTenantByDomain(domain)
        tokenParts == Split(bearerToken)
    IN IF ~tenantInfo.ok THEN AuthFail("tenant not found")
       ELSE IF tenantInfo.tenant \notin tdbs THEN AuthFail("database connection not found")
       ELSE IF Len(tokenParts) # 2 THEN AuthFail("invalid token format")
       ELSE IF ~Atoi(tokenParts[1]).ok THEN AuthFail("invalid token ID")
       ELSE validateTokenInTenant(tenantInfo.tenant, Atoi(tokenParts[1]).val,
                                  SHA256Hex(tokenParts[2]), now)

\* canAccessTenant without the comparison of the tenant names
canAccessTenantAny(auth, tenantName) == TRUE

\* canAccessTenant: a session sees only its own tenant's data
canAccessTenant(auth, tenantName) == auth.TenantName = tenantName


\* ------------------------------------------------------------------ state
VARIABLES
    \* RealtimeEngine
    tenantDBs,              \* names of the tenants with a database handle
    sessions,               \* ids of the active table
    negotiationSessions,    \* ids of the negotiating table
    authenticatedSessions,  \* session id -> AuthenticatedSession
    \* sockjsHandler(session), one goroutine per session id
    pc,                     \* where the handler stands
    authSession,            \* the handler's local authSession
    msg,                    \* the frame Recv returned last
    tpc,                    \* the handler's negotiation-timeout goroutine: "none" (not
                            \* started), "waiting", "closing" (removed the session, about
                            \* to close it), "timedout" (closed it) or "done" (found
                            \* the session no longer negotiating)
    \* the transport of each session
    transport,              \* "open" or "closed"
    closeCalls,             \* the codes the server called session.Close with
    inbox,                  \* how many frames of the client Recv has not returned yet
    log,                    \* frames whose Send succeeded, in order
    promoted,               \* ids the handler moved to the active table
    \* BroadcastSystemMessage
    nevents,                \* events so far
    bpc, bsnap,
    \* listenToTenantPublications, one goroutine per tenant handle
    lpc, lmessage, lsessions, lauth,
    \* DisconnectAllSessions
    dpc, dactive, dneg,
    \* what came in from outside, where a specification keeps it
    request,                \* the request of each handshake
    authErr,                \* the error the handshake of each session ended with
    channel,                \* listener.Notify of each tenant: the notifications waiting
    taken,                  \* the notifications the listener of each tenant took, in order
    \* main and the goroutines it starts
    mainpc,                 \* where main stands
    landlordDB,             \* whether e.landlordDB holds a handle (is not nil)
    landlordUp,             \* whether the landlord database answers
    splpc,                  \* where startPublicationListeners stands
    listener,               \* the goroutine listenToTenantPublications of each tenant:
                            \* "none" (not started), "starting", "listening" (in its
                            \* loop), "failed" (returned, Listen failed) or "exited"
                            \* (returned, Ping failed)
    health,                 \* the last response of GET /api/health
    \* the token cache
    tokenCache,             \* the CachedTokenEntry records
    clock,                  \* the time
    lastAuth,               \* how the last authenticate call ended
    \* RealtimeEngine.mutex, where a specification follows who holds it
    mutex,                  \* "free" or the operation that holds the lock
    zrest, zdead,           \* cleanupZombieSessions: the sessions still to ping, the
                            \* sessions whose ping failed
    \* the token stores, where a specification follows the calls one by one
    validation,             \* the last call of validateTokenInTenant and what it returned
    lastUsedAt,             \* personal_access_tokens.last_used_at of each row
    authCall,               \* the last call of authenticateTokenForDomain, the queries it
                            \* sent to the token store and what it returned
    \* GET /api/sessions/count
    cpc,                    \* where GetSessionsCount stands: "idle", "negotiation" (it
                            \* has read the active count) or "total" (and the negotiating)
    counts,                 \* the response: the three counts as they were read
    cseen                   \* the session ids behind the counts: the registered ones when
                            \* the request started and when it ended, the ones counted as
                            \* active and as negotiating

engineVars == <<tenantDBs, sessions, negotiationSessions, authenticatedSessions>>
handlerVars == <<pc, authSession, msg, tpc>>
transportVars == <<transport, closeCalls, inbox, log>>
broadcastVars == <<bpc, bsnap>>
listenerVars == <<lpc, lmessage, lsessions, lauth>>
disconnectVars == <<dpc, dactive, dneg>>
inputVars == <<request, authErr, channel, taken>>
startupVars == <<mainpc, landlordDB, landlordUp, splpc, listener, health>>
cacheVars == <<tokenCache, clock, lastAuth>>
lockVars == <<mutex, zrest, zdead>>
tokenVars == <<validation, lastUsedAt, authCall>>
countVars == <<cpc, counts, cseen>>
processVars == <<startupVars, cacheVars, lockVars, tokenVars, countVars>>
vars == <<engineVars, handlerVars, transportVars, promoted, nevents, broadcastVars,
          listenerVars, disconnectVars, inputVars, processVars>>

\* tenants whose database answered the ping at startup (loadTenantDatabases)
ConnectedTenants == {"acme", "globex"}

NoAuth == [TenantName |-> None, UserID |-> 0, TokenID |-> 0, ExpiresAt |-> NoExpiry, SessionID |-> None]
NoRequest == [authHeader |-> [prefix |-> "", rest |-> <<>>], queryParam |-> <<>>,
              domain |-> "", now |-> 0]
NoHealth == [status |-> None, code |-> 0, landlordUp |-> TRUE]
NoEntry == [tenant_name |-> None, token_id |-> 0, opaque_hash |-> <<>>, subject_id |-> 0,
            expires_at |-> NoExpiry, cache_expires_at |-> 0]
NoKey == <<None, 0, <<>>>>
NoCall == [key |-> NoKey, ok |-> FALSE, hit |-> FALSE, at |-> 0, entry |-> NoEntry]
\* last_used_at IS NULL
NeverUsed == -1
\* the rows of the token stores: (tenant, id)
TokenKeys == UNION {{<<t, r.ID>> : r \in TokenRows(t)} : t \in TenantNames}
NoCounts == [status |-> None, active_sessions |-> 0, negotiation_sessions |-> 0,
             total_sessions |-> 0]
NoMessage == [TenantName |-> None, Table |-> None, Operation |-> None, NewData |-> None,
              OldData |-> None, Message |-> <<>>, DBTimestamp |-> 0]

\* the engine as main constructs it, before any goroutine runs: empty tables,
\* no connection, nothing in flight
Constructed ==
    /\ sessions = {}
    /\ negotiationSessions = {}
    /\ authenticatedSessions = <<>>
    /\ pc = [s \in SessionIds |-> "init"]
    /\ authSession = [s \in SessionIds |-> NoAuth]
    /\ msg = [s \in SessionIds |-> None]
    /\ tpc = [s \in SessionIds |-> "none"]
    /\ transport = [s \in SessionIds |-> "open"]
    /\ closeCalls = [s \in SessionIds |-> {}]
    /\ inbox = [s \in SessionIds |-> 0]
    /\ log = [s \in SessionIds |-> <<>>]
    /\ promoted = {}
    /\ nevents = 0
    /\ bpc = "idle" /\ bsnap = {}
    /\ lpc = [t \in ConnectedTenants |-> "idle"]
    /\ lmessage = [t \in ConnectedTenants |-> NoMessage]
    /\ lsessions = [t \in ConnectedTenants |-> {}]
    /\ lauth = [t \in ConnectedTenants |-> <<>>]
    /\ dpc = "idle" /\ dactive = {} /\ dneg = {}
    /\ request = [s \in SessionIds |-> NoRequest]
    /\ authErr = [s \in SessionIds |-> None]
    /\ channel = [t \in ConnectedTenants |-> <<>>]
    /\ taken = [t \in ConnectedTenants |-> <<>>]
    /\ health = NoHealth
    /\ tokenCache = {}
    /\ clock = 0
    /\ lastAuth = NoCall
    /\ mutex = "free"
    /\ zrest = {} /\ zdead = {}
    /\ validation = [called |-> FALSE, tenant |-> None, tokenID |-> 0, hashedToken |-> <<>>,
                     now |-> 0, execErr |-> FALSE, ok |-> FALSE, err |-> None,
                     session |-> NoAuth]
    /\ lastUsedAt = [k \in TokenKeys |-> NeverUsed]
    /\ authCall = [called |-> FALSE, bearerToken |-> <<>>, domain |-> "", now |-> 0,
                   ok |-> FALSE, err |-> None, queries |-> {}]
    /\ cpc = "idle"
    /\ counts = NoCounts
    /\ cseen = [start |-> {}, active |-> {}, negotiation |-> {}, end |-> {}]

\* the process once main serves: the landlord answered, the tenants of
\* ConnectedTenants answered their ping, and every listener listens
Init ==
    /\ Constructed
    /\ tenantDBs = ConnectedTenants
    /\ mainpc = "serving"
    /\ landlordDB = TRUE
    /\ landlordUp = TRUE
    /\ splpc = "done"
    /\ listener = [t \in ConnectedTenants |-> "listening"]

\* ------------------------------------------------------------- transports
\* delete(m, id) on a map kept as a function
MapDelete(m, id) == [x \in DOMAIN m \ {id} |-> m[x]]
\* m[id] = v
MapPut(m, id, v) == [x \in DOMAIN m \cup {id} |-> IF x = id THEN v ELSE m[x]]

\* delete(m, id) for every id of a set
RECURSIVE MapDeleteAll(_, _)
MapDeleteAll(m, ids) ==
    IF ids = {} THEN m
    ELSE LET id == CHOOSE x \in ids : TRUE IN MapDeleteAll(MapDelete(m, id), ids \ {id})

\* SystemMessage / PublicationMessage as sent: the fields the frames differ in
Frame(type, operation, sessionId, tenant, data) ==
    [type |-> type, operation |-> operation, sessionId |-> sessionId,
     tenant_name |-> tenant, data |-> data]

\* session.Send succeeds exactly on an open transport
SendOK(s) == transport[s] = "open"

\* the log after session.Send(frame) on every session of the set to
LogAfterSend(to, frame) ==
    [x \in SessionIds |-> IF x \in to /\ SendOK(x) THEN Append(log[x], frame[x]) ELSE log[x]]

\* the frame sent to everybody in to is the same
Same(frame) == [x \in SessionIds |-> frame]

\* session.Close(code) on every session of the set: closes a transport that
\* is not closed yet, and is an error (no effect) on one that is
TransportAfterClose(these) ==
    [x \in SessionIds |-> IF x \in these THEN "closed" ELSE transport[x]]
CloseCallsAfterClose(these, code) ==
    [x \in SessionIds |-> IF x \in these THEN closeCalls[x] \cup {code} ELSE closeCalls[x]]

\* ---------------------------------------------------------- sockjsHandler
Connected(s) == pc[s] # "init"

\* the order of the handler that registers the session before the welcome
HandshakeOrderRegisterFirst == <<"register", "welcome">>

\* the steps of the handler after a successful authentication, in the order
\* of the code: the welcome frame is sent, then the session is registered
HandshakeOrder == <<"welcome", "register">>

\* the step after step p; the receive loop follows the last one
NextStep(p) ==
    LET i == CHOOSE k \in 1..Len(HandshakeOrder) : HandshakeOrder[k] = p
    IN IF i = Len(HandshakeOrder) THEN "recv" ELSE HandshakeOrder[i + 1]

\* what the handshake of one connection yields: the handler extracts the
\* bearer and the domain and authenticates the bearer for the domain
Handshake(authHeader, queryParam, domain, tdbs, now) ==
    LET token == extractBearerToken(authHeader, queryParam)
        res   == authenticateTokenForDomain(token, domain, tdbs, now)
    IN IF token = <<>> THEN AuthFail("Bearer token required")
       ELSE IF domain = "" THEN AuthFail("Domain parameter required")
       ELSE res

\* the handshake results over all requests, for each set of tenant handles
HandshakeResults ==
    [tdbs \in SUBSET TenantNames |->
        {Handshake(h, q, d, tdbs, now) :
            h \in AuthHeaders, q \in Bearers, d \in Domains, now \in Times}]

\* the requests of the handshakes that are followed one at a time
Requests == [authHeader : AuthHeaders, queryParam : Bearers, domain : Domains, now : Clock]
HandshakeOf(req, tdbs) == Handshake(req.authHeader, req.queryParam, req.domain, tdbs, req.now)

\* a handler that goes on to the welcome whatever the authentication returned
ConnectOutcomeAccepting(res) == HandshakeOrder[1]

\* where the handler goes after the handshake
ConnectOutcome(res) == IF res.ok THEN HandshakeOrder[1] ELSE "autherr"

\* the handler is called for a new session and its handshake yields res
ConnectWith(s, res) ==
    /\ pc[s] = "init"
    /\ \A i \in 1..Len(SessionOrder) :
         SessionOrder[i] = s => \A j \in 1..(i-1) : Connected(SessionOrder[j])
    /\ pc' = [pc EXCEPT ![s] = ConnectOutcome(res)]
    /\ authSession' = [authSession EXCEPT ![s] =
           IF res.ok
           THEN [TenantName |-> res.session.TenantName, UserID |-> res.session.UserID,
                 TokenID |-> res.session.TokenID, ExpiresAt |-> res.session.ExpiresAt,
                 SessionID |-> s]
           ELSE authSession[s]]
    /\ UNCHANGED <<engineVars, msg, tpc, transportVars, promoted, nevents, broadcastVars,
                   listenerVars, disconnectVars, channel, taken, processVars>>

\* the handler is called for a new session; only the outcome of the handshake
\* is kept
Connect(s) ==
    /\ pc[s] = "init"
    /\ \E res \in HandshakeResults[tenantDBs] : ConnectWith(s, res)
    /\ UNCHANGED <<request, authErr>>

\* the handler is called for a new session; the request and the error of its
\* authentication are kept
ConnectRequest(s) ==
    /\ pc[s] = "init"
    /\ \E req \in Requests :
         /\ ConnectWith(s, HandshakeOf(req, tenantDBs))
         /\ request' = [request EXCEPT ![s] = req]
         /\ authErr' = [authErr EXCEPT ![s] = HandshakeOf(req, tenantDBs).err]

\* a failed handshake: sendAuthError (the result of Send is ignored), then
\* session.Close(4001, ...), and the handler returns
Reject(s) ==
    /\ pc[s] = "autherr"
    /\ log' = LogAfterSend({s}, Same(Frame("error", "auth_error", s, None, None)))
    /\ transport' = TransportAfterClose({s})
    /\ closeCalls' = CloseCallsAfterClose({s}, 4001)
    /\ pc' = [pc EXCEPT ![s] = "rejected"]
    /\ UNCHANGED <<processVars, inputVars, engineVars, authSession, msg, tpc, inbox, promoted,
                   nevents, broadcastVars, listenerVars, disconnectVars>>

\* the handler going on whatever the Send of the welcome frame returned
WelcomeOutcomeIgnoringError(s) == "register"

\* where the handler goes after the Send of the welcome frame: a failed Send
\* makes it return at once
WelcomeOutcome(s) == IF SendOK(s) THEN NextStep("welcome") ELSE "abandoned"

\* the welcome frame
SendWelcome(s) ==
    /\ pc[s] = "welcome"
    /\ log' = LogAfterSend({s}, Same(Frame("system", "authenticated", s,
                                           authSession[s].TenantName, None)))
    /\ pc' = [pc EXCEPT ![s] = WelcomeOutcome(s)]
    /\ UNCHANGED <<processVars, inputVars, engineVars, authSession, msg, tpc, transport, closeCalls,
                   inbox, promoted, nevents, broadcastVars, listenerVars, disconnectVars>>

\* a registration that does not bind the AuthenticatedSession
RegisterAuthMissing(s) == authenticatedSessions

\* the tables after the handler's registration (mutex.Lock ... Unlock)
RegisterNegotiation(s) == negotiationSessions \cup {s}
RegisterActive(s) == sessions
RegisterAuth(s) == MapPut(authenticatedSessions, s, authSession[s])

\* registration in the negotiating table, then the timeout goroutine starts
Register(s) ==
    /\ pc[s] = "register"
    /\ negotiationSessions' = RegisterNegotiation(s)
    /\ sessions' = RegisterActive(s)
    /\ authenticatedSessions' = RegisterAuth(s)
    /\ tpc' = [tpc EXCEPT ![s] = "waiting"]
    /\ pc' = [pc EXCEPT ![s] = NextStep("register")]
    /\ UNCHANGED <<processVars, inputVars, tenantDBs, authSession, msg, transportVars, promoted, nevents, broadcastVars,
                   listenerVars, disconnectVars>>

\* a promotion that leaves the session in the negotiating table
PromoteNegotiationKept(s) == negotiationSessions
\* a promotion that removes the session and does not add it to the active table
PromoteActiveMissing(s) == sessions

\* a promotion that does not look whether the session is still negotiating
PromoteActiveAlways(s) == sessions \cup {s}

\* the tables after the promotion section (mutex.Lock ... Unlock)
PromoteNegotiation(s) == negotiationSessions \ {s}
PromoteActive(s) == IF s \in negotiationSessions THEN sessions \cup {s} ELSE sessions

\* session.Recv returns a frame: under the lock the session moves from
\* negotiating to active if it is still negotiating; the frame is echoed next
Recv(s) ==
    /\ pc[s] = "recv"
    /\ inbox[s] > 0
    /\ \E m \in Msgs : msg' = [msg EXCEPT ![s] = m]
    /\ inbox' = [inbox EXCEPT ![s] = inbox[s] - 1]
    /\ negotiationSessions' = PromoteNegotiation(s)
    /\ sessions' = PromoteActive(s)
    /\ promoted' = IF s \in negotiationSessions THEN promoted \cup {s} ELSE promoted
    /\ pc' = [pc EXCEPT ![s] = "echo"]
    /\ UNCHANGED <<processVars, inputVars, tenantDBs, authenticatedSessions, authSession, tpc, transport,
                   closeCalls, log, nevents, broadcastVars, listenerVars,
                   disconnectVars>>

\* a cleanup that forgets the negotiating table
cleanupSessionNegotiationKept(s) == negotiationSessions

\* a cleanup that leaves the AuthenticatedSession record behind
cleanupSessionAuthKept(s) == authenticatedSessions

\* the maps after cleanupSession(sessionID, tenantName)
cleanupSessionActive(s) == sessions \ {s}
cleanupSessionNegotiation(s) == negotiationSessions \ {s}
cleanupSessionAuth(s) == MapDelete(authenticatedSessions, s)

\* the handler leaves the receive loop and calls cleanupSession
cleanupSession(s) ==
    /\ sessions' = cleanupSessionActive(s)
    /\ negotiationSessions' = cleanupSessionNegotiation(s)
    /\ authenticatedSessions' = cleanupSessionAuth(s)
    /\ pc' = [pc EXCEPT ![s] = "closed"]

\* session.Recv returns an error (the transport is closed): clean up
RecvErr(s) ==
    /\ pc[s] = "recv"
    /\ transport[s] = "closed"
    /\ cleanupSession(s)
    /\ UNCHANGED <<processVars, inputVars, tenantDBs, authSession, msg, tpc, transportVars, promoted,
                   nevents, broadcastVars, listenerVars, disconnectVars>>

\* an echo that carries nothing of the received frame
EchoDataEmpty(s) == ""

\* the data of the echo frame: the received frame
EchoData(s) == msg[s]

\* the echo of the received frame; a failed Send leaves the receive loop
Echo(s) ==
    /\ pc[s] = "echo"
    /\ log' = LogAfterSend({s}, Same(Frame("echo", "echo", s, None, EchoData(s))))
    /\ msg' = [msg EXCEPT ![s] = None]
    /\ IF SendOK(s)
       THEN /\ pc' = [pc EXCEPT ![s] = "recv"]
            /\ UNCHANGED engineVars
       ELSE /\ cleanupSession(s)
            /\ UNCHANGED tenantDBs
    /\ UNCHANGED <<processVars, inputVars, authSession, tpc, transport, closeCalls, inbox, promoted,
                   nevents, broadcastVars, listenerVars, disconnectVars>>

\* ------------------------------------------------- the negotiation timeout
\* a timer that looks the session up in the active table
stillNegotiatingWrongTable(s) == s \in sessions
\* a timer that does not look the session up at all
stillNegotiatingAlways(s) == TRUE

\* whether the timer goroutine finds the session still negotiating
stillNegotiating(s) == s \in negotiationSessions

\* negotiationTimeout.C fires (nothing ever sends on sessionClosed before):
\* under the lock, a session that is still negotiating is removed
TimerFire(s) ==
    /\ tpc[s] = "waiting"
    /\ IF stillNegotiating(s)
       THEN /\ negotiationSessions' = negotiationSessions \ {s}
            /\ authenticatedSessions' = MapDelete(authenticatedSessions, s)
            /\ tpc' = [tpc EXCEPT ![s] = "closing"]
       ELSE /\ tpc' = [tpc EXCEPT ![s] = "done"]
            /\ UNCHANGED <<negotiationSessions, authenticatedSessions>>
    /\ UNCHANGED <<processVars, inputVars, tenantDBs, sessions, pc, authSession, msg, transportVars, promoted,
                   nevents, broadcastVars, listenerVars, disconnectVars>>

\* after the unlock: session.Close(4001, "Negotiation timeout - session unused")
TimerClose(s) ==
    /\ tpc[s] = "closing"
    /\ transport' = TransportAfterClose({s})
    /\ closeCalls' = CloseCallsAfterClose({s}, 4001)
    /\ tpc' = [tpc EXCEPT ![s] = "timedout"]
    /\ UNCHANGED <<processVars, inputVars, engineVars, pc, authSession, msg, inbox, log, promoted,
                   nevents, broadcastVars, listenerVars, disconnectVars>>

\* ------------------------------------------------------------ the clients
\* the handler has not returned
Running == {"autherr", "welcome", "register", "recv", "echo"}
\* the handler will call Recv again unless it fails first
Receiving == {"welcome", "register", "recv", "echo"}

\* the client sends a frame; what it holds is read when Recv returns it
ClientSend(s) ==
    /\ pc[s] \in Receiving
    /\ transport[s] = "open"
    /\ nevents < MaxEvents
    /\ nevents' = nevents + 1
    /\ inbox' = [inbox EXCEPT ![s] = inbox[s] + 1]
    /\ UNCHANGED <<processVars, inputVars, engineVars, handlerVars, transport, closeCalls, log, promoted,
                   broadcastVars, listenerVars, disconnectVars>>

\* the client sends its first frame, the one that ends the negotiation; every
\* client does so once, and it is not counted as an event
ClientSendFirst(s) ==
    /\ pc[s] \in Receiving
    /\ transport[s] = "open"
    /\ s \notin promoted
    /\ inbox[s] = 0
    /\ inbox' = [inbox EXCEPT ![s] = inbox[s] + 1]
    /\ UNCHANGED <<processVars, inputVars, engineVars, handlerVars, transport, closeCalls, log, promoted,
                   nevents, broadcastVars, listenerVars, disconnectVars>>

\* the client goes away or the connection breaks: from now on every Send
\* fails, and Recv fails once the handler gets to it
ClientClose(s) ==
    /\ pc[s] \in Running
    /\ transport[s] = "open"
    /\ nevents < MaxEvents
    /\ nevents' = nevents + 1
    /\ transport' = [transport EXCEPT ![s] = "closed"]
    /\ UNCHANGED <<processVars, inputVars, engineVars, handlerVars, closeCalls, inbox, log, promoted,
                   broadcastVars, listenerVars, disconnectVars>>

HandlerNext ==
    \E s \in SessionIds :
        \/ Connect(s) \/ Reject(s) \/ SendWelcome(s) \/ Register(s)
        \/ Recv(s) \/ RecvErr(s) \/ Echo(s)
        \/ TimerFire(s) \/ TimerClose(s)
        \/ ClientSend(s) \/ ClientClose(s)

\* ------------------------------------------------- BroadcastSystemMessage
\* a broadcast that copies both tables
BroadcastRecipientsBothTables == sessions \cup negotiationSessions

\* the sessions BroadcastSystemMessage copies under the read lock
BroadcastRecipients == sessions

\* POST /api/broadcast: the recipients are copied under the read lock
BroadcastStart ==
    /\ bpc = "idle"
    /\ nevents < MaxEvents
    /\ nevents' = nevents + 1
    /\ bsnap' = BroadcastRecipients
    /\ bpc' = IF BroadcastRecipients = {} THEN "idle" ELSE "loop"
    /\ UNCHANGED <<processVars, inputVars, engineVars, handlerVars, transportVars, promoted, listenerVars,
                   disconnectVars>>

\* one turn of the send loop: the frame is stamped with the session id and
\* sent; after a failed Send the session is deleted under the write lock
BroadcastSend(sid) ==
    /\ bpc = "loop"
    /\ sid \in bsnap
    /\ log' = LogAfterSend({sid}, Same(Frame("system", "broadcast", sid, None, None)))
    /\ IF SendOK(sid)
       THEN UNCHANGED <<sessions, authenticatedSessions>>
       ELSE /\ sessions' = sessions \ {sid}
            /\ authenticatedSessions' = MapDelete(authenticatedSessions, sid)
    /\ bsnap' = bsnap \ {sid}
    /\ bpc' = IF bsnap \ {sid} = {} THEN "idle" ELSE "loop"
    /\ UNCHANGED <<processVars, inputVars, tenantDBs, negotiationSessions, handlerVars, transport, closeCalls,
                   inbox, promoted, nevents, listenerVars, disconnectVars>>

\* ------------------------------------------------ publication listeners
Absent == "absent"
BadShape == "badshape"

\* notification payloads (notification.Extra): text that is no JSON object of
\* the expected shape, or the fields of the PostgreSQLNotification
Payloads ==
    { [json |-> FALSE, table |-> None, operation |-> None, new_data |-> Absent, old_data |-> Absent,
       timestamp |-> 0],
      [json |-> TRUE, table |-> "wh_tasks", operation |-> "INSERT", new_data |-> "T1", old_data |-> Absent,
       timestamp |-> 0],
      [json |-> TRUE, table |-> "wh_tasks", operation |-> "DELETE", new_data |-> Absent, old_data |-> Absent,
       timestamp |-> 0] }

\* json.Unmarshal of a row into a TaskRecord: nil when absent or of another shape
TaskOf(raw) == IF raw \in {Absent, BadShape} THEN None ELSE raw

\* a getTaskName that reads the name of a nil task
getTaskNameOfNil(task) == task

\* getTaskName
getTaskName(task) == IF task = None THEN "unknown" ELSE task

\* the PublicationMessage handlePublicationNotification builds from a parsed payload
PublicationMessage(tenantName, n) ==
    LET new == IF n.operation \in {"INSERT", "UPDATE"} THEN TaskOf(n.new_data) ELSE None
        old == IF n.operation \in {"UPDATE", "DELETE"} THEN TaskOf(n.old_data) ELSE None
        text == CASE n.operation = "INSERT" -> <<"created", getTaskName(new), tenantName>>
                  [] n.operation = "UPDATE" -> <<"updated", getTaskName(new), tenantName>>
                  [] n.operation = "DELETE" -> <<"deleted", getTaskName(old), tenantName>>
                  [] OTHER -> <<>>
    IN [TenantName |-> tenantName, Table |-> n.table, Operation |-> n.operation,
        NewData |-> new, OldData |-> old, Message |-> text, DBTimestamp |-> n.timestamp]

\* a handler that takes every payload for a parsed notification
ParsedAlways(n) == TRUE

\* json.Unmarshal of notification.Extra into a PostgreSQLNotification: whether
\* it returns no error
Parsed(n) == n.json

\* the sessions broadcastPublicationMessage copies under the read lock
PublicationRecipients == sessions

\* whether the fan-out sends the message to a session with this auth record
Authorized(auth, message) == canAccessTenant(auth, message.TenantName)

\* handlePublicationNotification(t, n) up to the copies of
\* broadcastPublicationMessage: a payload that does not parse is dropped;
\* otherwise the message is built and the active sessions and the auth
\* records are copied under the read lock
handlePublicationNotification(t, n) ==
    IF ~Parsed(n) \/ PublicationRecipients = {}
    THEN UNCHANGED listenerVars
    ELSE /\ lmessage' = [lmessage EXCEPT ![t] = PublicationMessage(t, n)]
         /\ lsessions' = [lsessions EXCEPT ![t] = PublicationRecipients]
         /\ lauth' = [lauth EXCEPT ![t] = authenticatedSessions]
         /\ lpc' = [lpc EXCEPT ![t] = "loop"]

\* the database of tenant t notifies and the listener, which is idle, takes
\* the notification at once
Notify(t) ==
    /\ lpc[t] = "idle"
    /\ nevents < MaxEvents
    /\ nevents' = nevents + 1
    /\ \E n \in Payloads : handlePublicationNotification(t, n)
    /\ UNCHANGED <<processVars, inputVars, engineVars, handlerVars, transportVars, promoted, broadcastVars,
                   disconnectVars>>

\* the database of tenant t emits a notification, stamped with the time of
\* its emission; it waits in listener.Notify until the listener takes it
Emit(t) ==
    /\ nevents < MaxEvents
    /\ nevents' = nevents + 1
    /\ \E n \in Payloads :
         channel' = [channel EXCEPT ![t] = Append(@, [n EXCEPT !.timestamp = nevents + 1])]
    /\ UNCHANGED <<processVars, request, authErr, taken, engineVars, handlerVars, transportVars, promoted,
                   broadcastVars, listenerVars, disconnectVars>>

\* a listener that takes the notification that arrived last
NextNotificationLast(q) == q[Len(q)]

\* <-listener.Notify: the notification that has waited longest
NextNotification(q) == Head(q)

\* the listener of tenant t, back in its select, takes a waiting notification
Take(t) ==
    /\ lpc[t] = "idle"
    /\ channel[t] # <<>>
    /\ handlePublicationNotification(t, NextNotification(channel[t]))
    /\ channel' = [channel EXCEPT ![t] = Tail(@)]
    /\ taken' = [taken EXCEPT ![t] = Append(@, NextNotification(channel[t]))]
    /\ UNCHANGED <<processVars, request, authErr, engineVars, handlerVars, transportVars, promoted,
                   nevents, broadcastVars, disconnectVars>>

\* a loop that keeps a session whose Send failed, to send again
RemainingAfterSendRetry(t, sid) ==
    IF SendOK(sid) \/ sid \notin DOMAIN lauth[t] THEN lsessions[t] \ {sid} ELSE lsessions[t]

\* the sessions the loop of tenant t's fan-out has still to visit after sid
RemainingAfterSend(t, sid) == lsessions[t] \ {sid}

\* a loop that leaves the session whose Send failed in the tables
RemovedAfterSendNone(sid) == {}

\* the sessions the loop deletes from the tables after its Send to sid, under
\* the write lock it takes inside the loop
RemovedAfterSend(sid) == IF SendOK(sid) THEN {} ELSE {sid}

\* a fan-out that stamps the message once, with one id for every recipient
SessionIdStampShared(t, sid) == CHOOSE x \in DOMAIN lauth[t] : TRUE

\* message.SessionId = sessionID, on the loop's own copy of the message, before
\* it is marshalled for the session the loop visits
SessionIdStamp(t, sid) == sid

\* one turn of the fan-out loop of tenant t's listener
PublicationSend(t, sid) ==
    /\ lpc[t] = "loop"
    /\ sid \in lsessions[t]
    /\ IF sid \in DOMAIN lauth[t] /\ Authorized(lauth[t][sid], lmessage[t])
       THEN /\ log' = LogAfterSend({sid}, Same(Frame("publication", lmessage[t].Operation,
                                                     SessionIdStamp(t, sid),
                                                     lmessage[t].TenantName, lmessage[t])))
            /\ sessions' = sessions \ RemovedAfterSend(sid)
            /\ authenticatedSessions' = MapDeleteAll(authenticatedSessions, RemovedAfterSend(sid))
       ELSE UNCHANGED <<log, sessions, authenticatedSessions>>
    /\ IF RemainingAfterSend(t, sid) = {}
       THEN /\ lpc' = [lpc EXCEPT ![t] = "idle"]
            /\ lmessage' = [lmessage EXCEPT ![t] = NoMessage]
            /\ lauth' = [lauth EXCEPT ![t] = <<>>]
       ELSE UNCHANGED <<lpc, lmessage, lauth>>
    /\ lsessions' = [lsessions EXCEPT ![t] = RemainingAfterSend(t, sid)]
    /\ UNCHANGED <<processVars, inputVars, tenantDBs, negotiationSessions, handlerVars, transport, closeCalls,
                   inbox, promoted, nevents, broadcastVars, disconnectVars>>

\* ------------------------------------------------- cleanupZombieSessions
\* a reaper that looks at the active table only
zombieNegotiationSessionsNone == {}

\* the sessions whose ping Send fails
zombieActiveSessions == {s \in sessions : ~SendOK(s)}
zombieNegotiationSessions == {s \in negotiationSessions : ~SendOK(s)}

\* the body of cleanupZombieSessions, all of it under the write lock: a ping
\* is sent to every session of both tables, the sessions whose Send failed
\* are deleted
sweep ==
    /\ log' = LogAfterSend(sessions \cup negotiationSessions,
                           Same(Frame("ping", "health_check", "", None, None)))
    /\ sessions' = sessions \ zombieActiveSessions
    /\ negotiationSessions' = negotiationSessions \ zombieNegotiationSessions
    /\ authenticatedSessions' =
           MapDeleteAll(authenticatedSessions, zombieActiveSessions \cup zombieNegotiationSessions)
    /\ UNCHANGED <<processVars, inputVars, tenantDBs, handlerVars, transport, closeCalls, inbox, promoted,
                   broadcastVars, listenerVars, disconnectVars>>

\* one tick of the reaper's ticker, counted as an event
cleanupZombieSessions ==
    /\ nevents < MaxEvents
    /\ nevents' = nevents + 1
    /\ sweep

\* one tick of the reaper's ticker where the ticker is never held back while
\* a session waits to be reaped: only the ticks that find every transport
\* alive count as events
ReaperTick ==
    /\ zombieActiveSessions \cup zombieNegotiationSessions = {} => nevents < MaxEvents
    /\ nevents' = IF zombieActiveSessions \cup zombieNegotiationSessions = {}
                  THEN nevents + 1 ELSE nevents
    /\ sweep

\* cleanupZombieSessions followed statement by statement. e.mutex.Lock() with
\* the unlock deferred: the reaper holds the write lock from here to its return
ReaperLock ==
    /\ mutex = "free"
    /\ nevents < MaxEvents
    /\ nevents' = nevents + 1
    /\ mutex' = "reaper"
    /\ zrest' = sessions \cup negotiationSessions
    /\ zdead' = {}
    /\ UNCHANGED <<startupVars, cacheVars, tokenVars, countVars, inputVars, engineVars, handlerVars, transportVars,
                   promoted, broadcastVars, listenerVars, disconnectVars>>

\* one turn of the two ping loops: session.Send(pingJSON) to a session of the
\* tables; a session whose Send fails is noted as a zombie
ReaperPing(sid) ==
    /\ mutex = "reaper"
    /\ sid \in zrest
    /\ log' = LogAfterSend({sid}, Same(Frame("ping", "health_check", "", None, None)))
    /\ zdead' = IF SendOK(sid) THEN zdead ELSE zdead \cup {sid}
    /\ zrest' = zrest \ {sid}
    /\ UNCHANGED <<startupVars, cacheVars, tokenVars, countVars, mutex, inputVars, engineVars, handlerVars, transport,
                   closeCalls, inbox, promoted, nevents, broadcastVars, listenerVars,
                   disconnectVars>>

\* the two delete loops and the deferred unlock
ReaperUnlock ==
    /\ mutex = "reaper"
    /\ zrest = {}
    /\ sessions' = sessions \ zdead
    /\ negotiationSessions' = negotiationSessions \ zdead
    /\ authenticatedSessions' = MapDeleteAll(authenticatedSessions, zdead)
    /\ mutex' = "free"
    /\ zdead' = {}
    /\ UNCHANGED <<startupVars, cacheVars, tokenVars, countVars, zrest, inputVars, tenantDBs, handlerVars, transportVars,
                   promoted, nevents, broadcastVars, listenerVars, disconnectVars>>

\* ------------------------------------------------- DisconnectAllSessions
\* both tables are copied under the lock
DisconnectStart ==
    /\ dpc = "idle"
    /\ nevents < MaxEvents
    /\ nevents' = nevents + 1
    /\ dactive' = sessions
    /\ dneg' = negotiationSessions
    /\ dpc' = "closing"
    /\ UNCHANGED <<processVars, inputVars, engineVars, handlerVars, transportVars, promoted, broadcastVars,
                   listenerVars>>

\* an active session of the copy: the shutdown frame, then Close(1000)
DisconnectActive(sid) ==
    /\ dpc = "closing"
    /\ sid \in dactive
    /\ log' = LogAfterSend({sid}, Same(Frame("system", "server_shutdown", sid, None, None)))
    /\ transport' = TransportAfterClose({sid})
    /\ closeCalls' = CloseCallsAfterClose({sid}, 1000)
    /\ dactive' = dactive \ {sid}
    /\ UNCHANGED <<processVars, inputVars, engineVars, handlerVars, inbox, promoted, nevents, broadcastVars,
                   listenerVars, dpc, dneg>>

\* a negotiating session of the copy, after the active ones: Close(1000)
DisconnectNegotiation(sid) ==
    /\ dpc = "closing"
    /\ dactive = {}
    /\ sid \in dneg
    /\ transport' = TransportAfterClose({sid})
    /\ closeCalls' = CloseCallsAfterClose({sid}, 1000)
    /\ dneg' = dneg \ {sid}
    /\ UNCHANGED <<processVars, inputVars, engineVars, handlerVars, inbox, log, promoted, nevents,
                   broadcastVars, listenerVars, dpc, dactive>>

\* a final section that replaces the active table only
DisconnectClearNegotiationKept == negotiationSessions
\* a final section that does not wait for the two loops
DisconnectDrainedAlways == TRUE

\* both loops over the copies are finished
DisconnectDrained == dactive = {} /\ dneg = {}

\* the maps after the final section (make(map...))
DisconnectClearActive == {}
DisconnectClearNegotiation == {}
DisconnectClearAuth == <<>>

\* the three maps are replaced by empty ones under the lock
DisconnectClear ==
    /\ dpc = "closing"
    /\ DisconnectDrained
    /\ sessions' = DisconnectClearActive
    /\ negotiationSessions' = DisconnectClearNegotiation
    /\ authenticatedSessions' = DisconnectClearAuth
    /\ dpc' = "idle"
    /\ UNCHANGED <<processVars, inputVars, tenantDBs, handlerVars, transportVars, promoted, nevents, broadcastVars,
                   listenerVars, dactive, dneg>>

\* ------------------------------------------------------- session counts
\* GetConnectedSessionsCount, GetNegotiationSessionsCount, GetTotalSessionsCount
GetConnectedSessionsCount == Cardinality(sessions)
GetNegotiationSessionsCount == Cardinality(negotiationSessions)
GetTotalSessionsCount == Cardinality(sessions) + Cardinality(negotiationSessions)

\* GET /api/sessions/count: activeCount := sc.engine.GetConnectedSessionsCount(),
\* under a read lock of its own
GetSessionsCountActive ==
    /\ cpc = "idle"
    /\ counts' = [NoCounts EXCEPT !.active_sessions = GetConnectedSessionsCount]
    /\ cseen' = [start |-> sessions \cup negotiationSessions, active |-> sessions,
                 negotiation |-> {}, end |-> {}]
    /\ cpc' = "negotiation"
    /\ UNCHANGED <<startupVars, cacheVars, lockVars, tokenVars, inputVars, engineVars,
                   handlerVars, transportVars, promoted, nevents, broadcastVars, listenerVars,
                   disconnectVars>>

\* negotiationCount := sc.engine.GetNegotiationSessionsCount(), under the next
\* read lock
GetSessionsCountNegotiation ==
    /\ cpc = "negotiation"
    /\ counts' = [counts EXCEPT !.negotiation_sessions = GetNegotiationSessionsCount]
    /\ cseen' = [cseen EXCEPT !.negotiation = negotiationSessions]
    /\ cpc' = "total"
    /\ UNCHANGED <<startupVars, cacheVars, lockVars, tokenVars, inputVars, engineVars,
                   handlerVars, transportVars, promoted, nevents, broadcastVars, listenerVars,
                   disconnectVars>>

\* totalCount := sc.engine.GetTotalSessionsCount(), under a third read lock,
\* and the response
GetSessionsCountTotal ==
    /\ cpc = "total"
    /\ counts' = [counts EXCEPT !.total_sessions = GetTotalSessionsCount,
                                !.status = "success"]
    /\ cseen' = [cseen EXCEPT !.end = sessions \cup negotiationSessions]
    /\ cpc' = "idle"
    /\ UNCHANGED <<startupVars, cacheVars, lockVars, tokenVars, inputVars, engineVars,
                   handlerVars, transportVars, promoted, nevents, broadcastVars, listenerVars,
                   disconnectVars>>

Next ==
    \/ HandlerNext
    \/ BroadcastStart
    \/ \E sid \in SessionIds : BroadcastSend(sid)
    \/ \E t \in ConnectedTenants : Notify(t)
    \/ \E t \in ConnectedTenants, sid \in SessionIds : PublicationSend(t, sid)
    \/ cleanupZombieSessions
    \/ DisconnectStart
    \/ \E sid \in SessionIds : DisconnectActive(sid)
    \/ \E sid \in SessionIds : DisconnectNegotiation(sid)
    \/ DisconnectClear


Spec == Init /\ [][Next]_vars

\* ------------------------------------------- the counts while sessions move
\* the connections and the requests GET /api/sessions/count
CountNext ==
    \/ \E s \in SessionIds :
          \/ Connect(s) \/ SendWelcome(s) \/ Register(s)
          \/ Recv(s) \/ RecvErr(s) \/ Echo(s)
          \/ ClientSend(s) \/ ClientClose(s)
    \/ GetSessionsCountActive
    \/ GetSessionsCountNegotiation
    \/ GetSessionsCountTotal

CountSpec == Init /\ [][CountNext]_vars

\* ------------------------------------------------- one handshake at a time
\* the first connection alone, from the request to the registration, with
\* the request kept: every request of Requests against the token stores
HandshakeNext ==
    \E s \in {SessionOrder[1]} :
        \/ ConnectRequest(s) \/ Reject(s) \/ SendWelcome(s) \/ Register(s)
        \/ ClientClose(s)

HandshakeSpec == Init /\ [][HandshakeNext]_vars

\* ------------------------------------------- the listeners' channels
\* the connections and the listeners, with the notifications waiting in
\* listener.Notify between their emission and the listener's next select
FanoutNext ==
    \/ \E s \in SessionIds :
          \/ Connect(s) \/ Reject(s) \/ SendWelcome(s) \/ Register(s)
          \/ Recv(s) \/ RecvErr(s) \/ Echo(s)
          \/ ClientSend(s) \/ ClientClose(s)
    \/ \E t \in ConnectedTenants : Emit(t)
    \/ \E t \in ConnectedTenants : Take(t)
    \/ \E t \in ConnectedTenants, sid \in SessionIds : PublicationSend(t, sid)

FanoutSpec == Init /\ [][FanoutNext]_vars

\* ------------------------------------------- fan-out to several sessions
\* the connections, each with its first frame, and the listeners: the
\* fan-out loops over more than one active session
LoopNext ==
    \/ \E s \in SessionIds :
          \/ Connect(s) \/ SendWelcome(s) \/ Register(s)
          \/ Recv(s) \/ RecvErr(s) \/ Echo(s)
          \/ ClientSendFirst(s) \/ ClientClose(s)
    \/ \E t \in ConnectedTenants : Notify(t)
    \/ \E t \in ConnectedTenants, sid \in SessionIds : PublicationSend(t, sid)

LoopSpec == Init /\ [][LoopNext]_vars

\* ------------------------------------------------------------ startup
\* main right after the construction of the engine
StartupInit ==
    /\ Constructed
    /\ tenantDBs = {}
    /\ mainpc = "connect"
    /\ landlordDB = FALSE
    /\ landlordUp \in BOOLEAN
    /\ splpc = "none"
    /\ listener = [t \in ConnectedTenants |-> "none"]

\* the positions of main after log.Fatalf / log.Fatal: the process is gone
Fatal == {"fatal_landlord", "fatal_tenants", "fatal_http"}
Alive == mainpc \notin Fatal

\* connectToLandlord and main's check of its error: sql.Open, db.Ping; the
\* handle is stored only when the ping answered, and an error is fatal
connectToLandlord ==
    /\ mainpc = "connect"
    /\ landlordDB' = landlordUp
    /\ mainpc' = IF landlordUp THEN "load" ELSE "fatal_landlord"
    /\ UNCHANGED <<landlordUp, splpc, listener, health, cacheVars, lockVars, tokenVars, countVars, inputVars,
                   engineVars, handlerVars, transportVars, promoted, nevents, broadcastVars,
                   listenerVars, disconnectVars>>

\* a loadTenantDatabases that returns the error of a tenant it could not reach
AfterTenantsLoadedStrict(failed) == IF failed = {} THEN "spawn" ELSE "fatal_tenants"

\* where main goes when loadTenantDatabases has gone through the tenants, of
\* which those of failed did not answer: they are logged and skipped
AfterTenantsLoaded(failed) == "spawn"

\* loadTenantDatabases and main's check of its error: the query of the
\* landlord, whose failure is fatal, then connectToTenant for every row; the
\* tenants whose ping answers get a handle
loadTenantDatabases ==
    /\ mainpc = "load"
    /\ IF landlordUp
       THEN \E up \in SUBSET ConnectedTenants :
               /\ tenantDBs' = up
               /\ mainpc' = AfterTenantsLoaded(TenantNames \ up)
       ELSE /\ mainpc' = "fatal_tenants"
            /\ UNCHANGED tenantDBs
    /\ UNCHANGED <<landlordDB, landlordUp, splpc, listener, health, cacheVars, lockVars, tokenVars, countVars,
                   inputVars, sessions, negotiationSessions, authenticatedSessions,
                   handlerVars, transportVars, promoted, nevents, broadcastVars, listenerVars,
                   disconnectVars>>

\* go engine.startPublicationListeners(), and on to the HTTP server
SpawnListeners ==
    /\ mainpc = "spawn"
    /\ mainpc' = "listen"
    /\ splpc' = "query"
    /\ UNCHANGED <<landlordDB, landlordUp, listener, health, cacheVars, lockVars, tokenVars, countVars, inputVars,
                   engineVars, handlerVars, transportVars, promoted, nevents, broadcastVars,
                   listenerVars, disconnectVars>>

\* log.Fatal(app.Listen(...)): the server binds its port and serves, or fails
ListenHTTP ==
    /\ mainpc = "listen"
    /\ \E ok \in BOOLEAN : mainpc' = IF ok THEN "serving" ELSE "fatal_http"
    /\ UNCHANGED <<landlordDB, landlordUp, splpc, listener, health, cacheVars, lockVars, tokenVars, countVars,
                   inputVars, engineVars, handlerVars, transportVars, promoted, nevents,
                   broadcastVars, listenerVars, disconnectVars>>

\* startPublicationListeners: the copy of tenantDBs, the query of the
\* landlord, and one goroutine listenToTenantPublications for every row with
\* a handle; when the query fails it returns and starts none
startPublicationListeners ==
    /\ Alive
    /\ splpc = "query"
    /\ IF landlordUp
       THEN /\ splpc' = "done"
            /\ listener' = [t \in ConnectedTenants |->
                                IF t \in tenantDBs THEN "starting" ELSE listener[t]]
       ELSE /\ splpc' = "failed"
            /\ UNCHANGED listener
    /\ UNCHANGED <<mainpc, landlordDB, landlordUp, health, cacheVars, lockVars, tokenVars, countVars, inputVars,
                   engineVars, handlerVars, transportVars, promoted, nevents, broadcastVars,
                   listenerVars, disconnectVars>>

\* listenToTenantPublications up to its loop: listener.Listen(channelName);
\* on an error the goroutine returns
Listen(t) ==
    /\ Alive
    /\ listener[t] = "starting"
    /\ \E ok \in BOOLEAN :
          listener' = [listener EXCEPT ![t] = IF ok THEN "listening" ELSE "failed"]
    /\ UNCHANGED <<mainpc, landlordDB, landlordUp, splpc, health, cacheVars, lockVars, tokenVars, countVars,
                   inputVars, engineVars, handlerVars, transportVars, promoted, nevents,
                   broadcastVars, listenerVars, disconnectVars>>

\* the select of the loop after 90 s without a notification: listener.Ping();
\* on an error the goroutine returns (the deferred listener.Close() runs)
ListenerPing(t) ==
    /\ Alive
    /\ listener[t] = "listening"
    /\ lpc[t] = "idle"
    /\ channel[t] = <<>>
    /\ \E ok \in BOOLEAN :
          listener' = [listener EXCEPT ![t] = IF ok THEN "listening" ELSE "exited"]
    /\ UNCHANGED <<mainpc, landlordDB, landlordUp, splpc, health, cacheVars, lockVars, tokenVars, countVars,
                   inputVars, engineVars, handlerVars, transportVars, promoted, nevents,
                   broadcastVars, listenerVars, disconnectVars>>

\* the select of the loop with a notification waiting, in a goroutine that is
\* in its loop
ListenerTake(t) ==
    /\ Alive
    /\ listener[t] = "listening"
    /\ Take(t)

\* the database of tenant t, which has a handle, emits a notification
TenantEmit(t) ==
    /\ Alive
    /\ t \in tenantDBs
    /\ Emit(t)

\* the landlord database goes away or comes back
LandlordChange ==
    /\ Alive
    /\ landlordUp' = ~landlordUp
    /\ UNCHANGED <<mainpc, landlordDB, splpc, listener, health, cacheVars, lockVars, tokenVars, countVars,
                   inputVars, engineVars, handlerVars, transportVars, promoted, nevents,
                   broadcastVars, listenerVars, disconnectVars>>

\* IsLandlordConnected
IsLandlordConnected == landlordDB

\* GET /api/health: the status and the HTTP status of the response, with the
\* state of the landlord database at the time of the request
GetHealth ==
    /\ mainpc = "serving"
    /\ health' = [status |-> IF IsLandlordConnected THEN "healthy" ELSE "degraded",
                  code |-> IF IsLandlordConnected THEN 200 ELSE 503,
                  landlordUp |-> landlordUp]
    /\ UNCHANGED <<mainpc, landlordDB, landlordUp, splpc, listener, cacheVars, lockVars, tokenVars, countVars,
                   inputVars, engineVars, handlerVars, transportVars, promoted, nevents,
                   broadcastVars, listenerVars, disconnectVars>>

\* what main does, one statement after the other
MainStep == connectToLandlord \/ loadTenantDatabases \/ SpawnListeners \/ ListenHTTP

\* what the listener goroutines do by themselves
ListenerStep == \E t \in ConnectedTenants : Listen(t) \/ ListenerTake(t)

StartupNext ==
    \/ MainStep
    \/ startPublicationListeners
    \/ ListenerStep
    \/ \E t \in ConnectedTenants : ListenerPing(t)
    \/ \E t \in ConnectedTenants : TenantEmit(t)
    \/ LandlordChange
    \/ GetHealth

\* the Go scheduler runs every goroutine that can take a step: main, the
\* goroutine startPublicationListeners and the listeners go on; what the
\* databases and the clients do is up to them
StartupSpec ==
    /\ StartupInit
    /\ [][StartupNext]_vars
    /\ WF_vars(MainStep)
    /\ WF_vars(startPublicationListeners)
    /\ WF_vars(ListenerStep)

\* ------------------------------------------------------- the token cache
\* CACHE_TTL, in ticks of the clock
CacheTTL == 2

Min(a, b) == IF a <= b THEN a ELSE b

\* the key of the cache: tenant_name|token_id|opaque_hash, for a bearer and a
\* domain that name one; None where the tenant, its handle or the parts of
\* the bearer are missing
CacheKeyOf(bearerToken, domain, tdbs) ==
    LET tenantInfo == getTenantByDomain(domain)
        tokenParts == Split(bearerToken)
    IN IF /\ tenantInfo.ok
          /\ tenantInfo.tenant \in tdbs
          /\ Len(tokenParts) = 2
          /\ Atoi(tokenParts[1]).ok
       THEN <<tenantInfo.tenant, Atoi(tokenParts[1]).val, SHA256Hex(tokenParts[2])>>
       ELSE NoKey
EntryKey(e) == <<e.tenant_name, e.token_id, e.opaque_hash>>

\* a cache that honours an entry up to and including its expiry
HitHonoredInclusive(e, now) ==
    /\ now <= e.cache_expires_at
    /\ e.expires_at = NoExpiry \/ now <= e.expires_at

\* a hit is honoured only if now < cache_expires_at and expires_at is absent
\* or now < expires_at
HitHonored(e, now) ==
    /\ now < e.cache_expires_at
    /\ e.expires_at = NoExpiry \/ now < e.expires_at

\* cache_expires_at = min(token.expires_at, now + CACHE_TTL)
CacheExpiresAt(expiresAt, now) ==
    IF expiresAt = NoExpiry THEN now + CacheTTL ELSE Min(expiresAt, now + CacheTTL)

\* the entry inserted for a session the tenant database validated
EntryOf(key, session, now) ==
    [tenant_name |-> key[1], token_id |-> key[2], opaque_hash |-> key[3],
     subject_id |-> session.UserID, expires_at |-> session.ExpiresAt,
     cache_expires_at |-> CacheExpiresAt(session.ExpiresAt, now)]

\* authenticate(bearer, domain): the cache is consulted first; on a miss the
\* tenant database is asked, and a session it validates is inserted; a call
\* that fails leaves the cache as it is
Authenticate ==
    \E bearerToken \in Bearers, domain \in Domains :
        LET key  == CacheKeyOf(bearerToken, domain, tenantDBs)
            hits == {e \in tokenCache : EntryKey(e) = key /\ HitHonored(e, clock)}
            res  == authenticateTokenForDomain(bearerToken, domain, tenantDBs, clock)
        IN /\ IF key # NoKey /\ hits # {}
              THEN /\ lastAuth' = [key |-> key, ok |-> TRUE, hit |-> TRUE, at |-> clock,
                                   entry |-> CHOOSE e \in hits : TRUE]
                   /\ UNCHANGED tokenCache
              ELSE /\ lastAuth' = [key |-> key, ok |-> res.ok, hit |-> FALSE, at |-> clock,
                                   entry |-> IF res.ok THEN EntryOf(key, res.session, clock)
                                             ELSE NoEntry]
                   /\ tokenCache' =
                          IF res.ok
                          THEN {e \in tokenCache : EntryKey(e) # key}
                                   \cup {EntryOf(key, res.session, clock)}
                          ELSE tokenCache
           /\ UNCHANGED <<clock, startupVars, lockVars, tokenVars, countVars, inputVars, engineVars, handlerVars,
                          transportVars, promoted, nevents, broadcastVars, listenerVars,
                          disconnectVars>>

\* the sweeper, every 5 minutes: the entries whose cache_expires_at has passed
\* are removed
cleanupExpiredTokens ==
    /\ tokenCache' = {e \in tokenCache : ~(clock > e.cache_expires_at)}
    /\ UNCHANGED <<clock, lastAuth, startupVars, lockVars, tokenVars, countVars, inputVars, engineVars, handlerVars,
                   transportVars, promoted, nevents, broadcastVars, listenerVars,
                   disconnectVars>>

\* time passes
Tick ==
    /\ clock + 1 \in Clock
    /\ clock' = clock + 1
    /\ UNCHANGED <<tokenCache, lastAuth, startupVars, lockVars, tokenVars, countVars, inputVars, engineVars,
                   handlerVars, transportVars, promoted, nevents, broadcastVars, listenerVars,
                   disconnectVars>>

CacheNext == Authenticate \/ cleanupExpiredTokens \/ Tick

CacheSpec == Init /\ [][CacheNext]_vars

\* ------------------------------------------------------ the token stores
\* a validation that returns the error of the UPDATE
AfterLastUsedUpdateFatal(res, execErr) ==
    IF execErr THEN AuthFail("database error") ELSE res

\* _, err = db.Exec("UPDATE personal_access_tokens SET last_used_at ..."): the
\* error is logged and the function goes on to build the session
AfterLastUsedUpdate(res, execErr) == res

\* validateTokenInTenant with the outcome of its UPDATE: the UPDATE is reached
\* when the row is found and is not expired
validateTokenInTenantExec(tenantName, tokenID, hashedToken, now, execErr) ==
    LET res == validateTokenInTenant(tenantName, tokenID, hashedToken, now)
    IN IF res.ok THEN AfterLastUsedUpdate(res, execErr) ELSE res

\* last_used_at after the call: the UPDATE that succeeded wrote the time
LastUsedAfter(tenantName, tokenID, hashedToken, now, execErr) ==
    IF validateTokenInTenant(tenantName, tokenID, hashedToken, now).ok /\ ~execErr
    THEN [lastUsedAt EXCEPT ![<<tenantName, tokenID>>] = now]
    ELSE lastUsedAt

\* the session of a result, as the AuthenticatedSession of a handler
SessionOf(res) ==
    IF res.ok
    THEN [TenantName |-> res.session.TenantName, UserID |-> res.session.UserID,
          TokenID |-> res.session.TokenID, ExpiresAt |-> res.session.ExpiresAt,
          SessionID |-> None]
    ELSE NoAuth

\* one call validateTokenInTenant(tenantName, db, tokenID, hashedToken) at time
\* now; the UPDATE of last_used_at fails or not
ValidateCall ==
    \E tenantName \in tenantDBs, tokenID \in {7, 8, 9},
       hashedToken \in {SHA256Hex(<<"S">>), SHA256Hex(<<"T">>), SHA256Hex(<<"G">>)},
       now \in Clock, execErr \in BOOLEAN :
        LET res == validateTokenInTenantExec(tenantName, tokenID, hashedToken, now, execErr)
        IN /\ validation' = [called |-> TRUE, tenant |-> tenantName, tokenID |-> tokenID,
                             hashedToken |-> hashedToken, now |-> now, execErr |-> execErr,
                             ok |-> res.ok, err |-> res.err, session |-> SessionOf(res)]
           /\ lastUsedAt' = LastUsedAfter(tenantName, tokenID, hashedToken, now, execErr)
           /\ UNCHANGED <<authCall, startupVars, cacheVars, lockVars, countVars, inputVars, engineVars,
                          handlerVars, transportVars, promoted, nevents, broadcastVars,
                          listenerVars, disconnectVars>>

\* the queries authenticateTokenForDomain(bearerToken, domain) sends to a token
\* store: the one of validateTokenInTenant, which the call reaches after the
\* tenant, its handle, the two parts and the numeric id
StoreQueries(bearerToken, domain, tdbs) ==
    LET tenantInfo == getTenantByDomain(domain)
        tokenParts == Split(bearerToken)
    IN IF ~tenantInfo.ok THEN {}
       ELSE IF tenantInfo.tenant \notin tdbs THEN {}
       ELSE IF Len(tokenParts) # 2 THEN {}
       ELSE IF ~Atoi(tokenParts[1]).ok THEN {}
       ELSE {<<tenantInfo.tenant, Atoi(tokenParts[1]).val, SHA256Hex(tokenParts[2])>>}

\* one call authenticateTokenForDomain(bearerToken, domain) at time now
AuthenticateCall ==
    \E bearerToken \in Bearers, domain \in Domains, now \in Clock, execErr \in BOOLEAN :
        LET res == authenticateTokenForDomain(bearerToken, domain, tenantDBs, now)
            queries == StoreQueries(bearerToken, domain, tenantDBs)
        IN /\ authCall' = [called |-> TRUE, bearerToken |-> bearerToken, domain |-> domain,
                           now |-> now, ok |-> res.ok, err |-> res.err, queries |-> queries]
           /\ lastUsedAt' =
                  IF queries = {} THEN lastUsedAt
                  ELSE LET q == CHOOSE x \in queries : TRUE
                       IN LastUsedAfter(q[1], q[2], q[3], now, execErr)
           /\ UNCHANGED <<validation, startupVars, cacheVars, lockVars, countVars, inputVars, engineVars,
                          handlerVars, transportVars, promoted, nevents, broadcastVars,
                          listenerVars, disconnectVars>>

\* the calls of validateTokenInTenant, one after the other
ValidateSpec == Init /\ [][ValidateCall]_vars

\* the calls of authenticateTokenForDomain, one after the other
AuthenticateSpec == Init /\ [][AuthenticateCall]_vars

\* ------------------------------------------------- who holds the lock
\* the operation waits for e.mutex, which nobody holds
Unlocked == mutex = "free"

\* the connections, the broadcasts and the reaper, with the reaper followed
\* statement by statement: what takes e.mutex waits while the reaper holds it,
\* what only sends, receives or closes goes on
LockNext ==
    \/ \E s \in SessionIds :
          \/ Unlocked /\ (Connect(s) \/ Register(s) \/ Recv(s) \/ RecvErr(s) \/ TimerFire(s))
          \/ Reject(s) \/ SendWelcome(s) \/ Echo(s) \/ TimerClose(s)
          \/ ClientSend(s) \/ ClientClose(s)
    \/ Unlocked /\ BroadcastStart
    \/ \E sid \in SessionIds : (SendOK(sid) \/ Unlocked) /\ BroadcastSend(sid)
    \/ ReaperLock
    \/ \E sid \in SessionIds : ReaperPing(sid)
    \/ ReaperUnlock

LockSpec == Init /\ [][LockNext]_vars

\* ------------------------------------------------ the reaper, with fairness
\* the connections and the reaper; the ticker of main fires every 30 s for as
\* long as the process runs, so a tick that stays possible happens
ReaperNext ==
    \/ HandlerNext
    \/ ReaperTick

ReaperSpec == Init /\ [][ReaperNext]_vars /\ WF_vars(ReaperTick)

\* ----------------------------------------------------------------- claims
IsWelcome(f) == f.type = "system" /\ f.operation = "authenticated"
IsAuthError(f) == f.type = "error" /\ f.operation = "auth_error"
IsBroadcast(f) == f.type = "system" /\ f.operation = "broadcast"
IsPublication(f) == f.type = "publication"
Frames(s) == {log[s][i] : i \in 1..Len(log[s])}
Registered == sessions \cup negotiationSessions

\* C1: every change event delivered to a session carries the tenant name of
\* that session's AuthenticatedSession, whatever connects, promotions,
\* disconnects and notifications of the two tenants interleave.
C1_TenantIsolation ==
    \A s \in SessionIds : \A f \in Frames(s) :
        IsPublication(f) =>
            /\ f.tenant_name = authSession[s].TenantName
            /\ f.data.TenantName = authSession[s].TenantName
            /\ s \in DOMAIN authenticatedSessions =>
                   authenticatedSessions[s].TenantName = f.tenant_name

\* a fan-out has delivered its event to a session of the event's tenant and
\* still has an active session of the other tenant ahead of it
C1_Witness ==
    \E t \in ConnectedTenants, s \in SessionIds, r \in SessionIds :
        /\ lpc[t] = "loop"
        /\ r \in lsessions[t]
        /\ r \in DOMAIN lauth[t]
        /\ lauth[t][r].TenantName # t
        /\ \E f \in Frames(s) : IsPublication(f) /\ f.tenant_name = t

\* C2: a broadcast or a change event is sent only to sessions that were in
\* the active table when the recipients were copied: every copied recipient
\* has been promoted, no promoted session is in the negotiating table, and
\* no session that was never promoted has received such a frame.
C2_OnlyActiveReceive ==
    /\ bsnap \subseteq promoted
    /\ \A t \in ConnectedTenants : lsessions[t] \subseteq promoted
    /\ promoted \cap negotiationSessions = {}
    /\ \A s \in SessionIds : \A f \in Frames(s) :
           (IsBroadcast(f) \/ IsPublication(f)) => s \in promoted

\* a broadcast reached an active session while another session, which got
\* nothing but its welcome, is negotiating
C2_Witness ==
    \E s \in SessionIds, r \in negotiationSessions :
        /\ \E f \in Frames(s) : IsBroadcast(f)
        /\ Len(log[r]) = 1
        /\ bpc = "idle"

\* C3: no session id is in the negotiating table and in the active table at
\* once.
C3_AtMostOneTable == sessions \cap negotiationSessions = {}

\* one session is active and the other negotiating, with its timer pending,
\* while DisconnectAllSessions is between its copy and its clear
C3_Witness ==
    \E s \in sessions, r \in negotiationSessions :
        /\ tpc[r] = "waiting"
        /\ dpc = "closing"

\* C4: every session id of the negotiating or the active table has an
\* AuthenticatedSession record.
C4_RegisteredHaveAuth == Registered \subseteq DOMAIN authenticatedSessions

\* one session is registered while another, once active, was removed with
\* its record by somebody else than its handler
C4_Witness ==
    \E s \in Registered, r \in promoted :
        /\ r \notin sessions
        /\ r \notin DOMAIN authenticatedSessions
        /\ pc[r] = "recv"

\* C5: a session is registered only after its welcome frame was sent: the
\* log of every session that was ever registered starts with the welcome;
\* a session whose welcome Send failed is in no table, has no
\* AuthenticatedSession record and never had its timer started.
C5_WelcomeBeforeRegistration ==
    \A s \in SessionIds :
        /\ (s \in Registered \/ s \in DOMAIN authenticatedSessions \/ tpc[s] # "none") =>
               (log[s] # <<>> /\ IsWelcome(log[s][1]))
        /\ pc[s] = "abandoned" =>
               /\ s \notin Registered
               /\ s \notin DOMAIN authenticatedSessions
               /\ tpc[s] = "none"
               /\ log[s] = <<>>

\* the welcome of one session failed while another session is registered
C5_Witness ==
    \E s \in SessionIds, r \in negotiationSessions : pc[s] = "abandoned"

\* C6: the welcome is the first frame of every session that gets one: a
\* session's frames are either the single auth_error of a failed handshake
\* or start with the welcome, and no welcome follows another frame.
C6_NothingBeforeWelcome ==
    \A s \in SessionIds :
        /\ log[s] # <<>> =>
               \/ IsWelcome(log[s][1])
               \/ Len(log[s]) = 1 /\ IsAuthError(log[s][1])
        /\ \A i \in 2..Len(log[s]) : ~IsWelcome(log[s][i]) /\ ~IsAuthError(log[s][i])

\* one session got its welcome and two more frames, a broadcast among them,
\* while the other got the auth_error of a failed handshake
C6_Witness ==
    \E s \in SessionIds, r \in SessionIds :
        /\ Len(log[s]) >= 3
        /\ \E f \in Frames(s) : IsBroadcast(f)
        /\ Len(log[r]) = 1 /\ IsAuthError(log[r][1])

\* what the step of session s that receives a frame does to the tables
PromotionStep(s) ==
    (pc[s] = "recv" /\ pc'[s] = "echo") =>
        /\ s \in negotiationSessions =>
               /\ s \notin sessions
               /\ s \notin negotiationSessions'
               /\ s \in sessions'
        /\ s \notin negotiationSessions =>
               /\ negotiationSessions' = negotiationSessions
               /\ sessions' = sessions
        /\ authenticatedSessions' = authenticatedSessions
        /\ log' = log

\* C7: the step that receives a frame, the empty frame too, on a negotiating
\* session removes it from the negotiating table and adds it to the active
\* table at once, so that no state shows it in both tables or in neither;
\* the frame is echoed only after that step.
C7_AtomicPromotion ==
    /\ [][\A s \in SessionIds : PromotionStep(s)]_vars
    /\ [](\A s \in SessionIds : pc[s] = "echo" => s \notin negotiationSessions)

\* the empty frame was received on a negotiating session, which is active now
\* and has not echoed the frame yet
C7_Witness ==
    \E s \in sessions :
        /\ pc[s] = "echo"
        /\ msg[s] = ""
        /\ s \in promoted
        /\ log[s] = <<Frame("system", "authenticated", s, authSession[s].TenantName, None)>>

\* what the firing of the timer of a session that is still negotiating does
TimeoutStep(s) ==
    (tpc[s] = "waiting" /\ tpc'[s] # "waiting" /\ s \in negotiationSessions) =>
        /\ tpc'[s] = "closing"
        /\ negotiationSessions' = negotiationSessions \ {s}
        /\ Cardinality(negotiationSessions') = Cardinality(negotiationSessions) - 1
        /\ s \notin DOMAIN authenticatedSessions'

\* C8: when the timer of a session fires and the session is still in the
\* negotiating table (no frame was received on it and nobody removed it),
\* the timer removes it from the negotiating table, so that the negotiating
\* count goes down by one, and then calls Close(4001); afterwards the
\* transport is closed and the session is in neither table.
C8_NegotiationTimeout ==
    /\ [][\A s \in SessionIds : TimeoutStep(s)]_vars
    /\ [](\A s \in SessionIds :
            /\ tpc[s] \in {"closing", "timedout", "done"} => s \notin negotiationSessions
            /\ tpc[s] = "timedout" =>
                   /\ 4001 \in closeCalls[s]
                   /\ transport[s] = "closed"
                   /\ s \notin Registered)

\* a session got its welcome, sent nothing, and was closed by its timer
C8_Witness ==
    \E s \in SessionIds :
        /\ tpc[s] = "timedout"
        /\ inbox[s] = 0
        /\ s \notin promoted
        /\ closeCalls[s] = {4001}
        /\ Len(log[s]) = 1

\* what the firing of the timer of a session that is no longer negotiating does
CancelledStep(s) ==
    (tpc[s] = "waiting" /\ tpc'[s] # "waiting" /\ s \notin negotiationSessions) =>
        /\ tpc'[s] = "done"
        /\ UNCHANGED <<engineVars, transportVars>>

\* C9: the timer of a session that was promoted, or removed from the
\* negotiating table by anybody, before it fires does nothing: it changes no
\* table and closes nothing. No promoted session is closed by its timer, and
\* no step of a timer removes a session from the active table.
C9_TimeoutCancelled ==
    /\ [][\A s \in SessionIds : CancelledStep(s)]_vars
    /\ [][(\E s \in SessionIds : tpc'[s] # tpc[s]) => sessions' = sessions]_vars
    /\ [](\A s \in promoted : tpc[s] \in {"waiting", "done"} /\ 4001 \notin closeCalls[s])

\* the timer of an active session fired and left the session active and open
C9_Witness ==
    \E s \in sessions :
        /\ tpc[s] = "done"
        /\ s \in promoted
        /\ transport[s] = "open"
        /\ s \in DOMAIN authenticatedSessions

\* C10: after the handler left its receive loop and cleanupSession returned,
\* the session id is in none of the three maps.
C10_CleanupRemovesAll ==
    \A s \in SessionIds :
        pc[s] = "closed" =>
            /\ s \notin sessions
            /\ s \notin negotiationSessions
            /\ s \notin DOMAIN authenticatedSessions

\* the connection of a negotiating session was closed and its handler cleaned
\* up before the timer fired, and the handler of an active session did too
C10_Witness ==
    \E s \in SessionIds, r \in SessionIds :
        /\ pc[s] = "closed" /\ s \notin promoted /\ tpc[s] = "waiting"
        /\ pc[r] = "closed" /\ r \in promoted

IsPingFrame(f) == f.type = "ping" /\ f.operation = "health_check"

\* what a sweep of the reaper does to every registered session
SweepStep ==
    ReaperTick =>
        \A s \in Registered :
            IF transport[s] = "closed"
            THEN /\ s \notin sessions' \cup negotiationSessions'
                 /\ s \notin DOMAIN authenticatedSessions'
                 /\ log'[s] = log[s]
            ELSE /\ s \in sessions <=> s \in sessions'
                 /\ s \in negotiationSessions <=> s \in negotiationSessions'
                 /\ s \in DOMAIN authenticatedSessions'
                 /\ authenticatedSessions'[s] = authenticatedSessions[s]
                 /\ log'[s] # <<>> /\ IsPingFrame(log'[s][Len(log'[s])])

\* C11: a sweep of the reaper removes every registered session, active or
\* negotiating, whose transport is dead from its table and from
\* authenticatedSessions and leaves every session whose ping is sent in its
\* table with its record; with the reaper's ticker firing again and again,
\* every registered session whose transport is dead is eventually in no table
\* and has no record.
C11_ZombieReaping ==
    /\ [][SweepStep]_vars
    /\ \A s \in SessionIds :
           (s \in Registered /\ transport[s] = "closed")
               ~> (s \notin Registered /\ s \notin DOMAIN authenticatedSessions)

\* the reaper removed an active session whose handler has not seen the dead
\* transport yet, and pinged the other session, which stays active
C11_Witness ==
    \E s \in promoted, r \in sessions :
        /\ transport[s] = "closed" /\ closeCalls[s] = {}
        /\ pc[s] = "recv"
        /\ s \notin sessions /\ s \notin DOMAIN authenticatedSessions
        /\ \E i \in 1..Len(log[r]) : IsPingFrame(log[r][i])
        /\ \A i \in 1..Len(log[s]) : ~IsPingFrame(log[s][i])

IsShutdown(f) == f.type = "system" /\ f.operation = "server_shutdown"

\* C12: in the state DisconnectAllSessions returns in, the counts of active,
\* of negotiating and of all sessions are 0.
C12_DisconnectAllCountsZero ==
    [][(dpc = "closing" /\ dpc' = "idle") =>
           /\ GetConnectedSessionsCount' = 0
           /\ GetNegotiationSessionsCount' = 0
           /\ GetTotalSessionsCount' = 0]_vars

\* DisconnectAllSessions has returned after closing an active and a
\* negotiating session whose handlers have not cleaned up yet; the counts are 0
C12_Witness ==
    \E s \in promoted, r \in SessionIds \ promoted :
        /\ dpc = "idle"
        /\ closeCalls[s] = {1000} /\ closeCalls[r] = {1000}
        /\ pc[s] = "recv" /\ pc[r] = "recv" /\ tpc[r] = "waiting"
        /\ GetTotalSessionsCount = 0
        /\ GetConnectedSessionsCount = 0
        /\ GetNegotiationSessionsCount = 0

\* what DisconnectAllSessions does with an active session of its copy
DisconnectActiveStep(sid) ==
    (dpc = "closing" /\ sid \in dactive /\ sid \notin dactive') =>
        /\ transport[sid] = "open" =>
               log'[sid] = Append(log[sid], Frame("system", "server_shutdown", sid, None, None))
        /\ transport'[sid] = "closed"
        /\ 1000 \in closeCalls'[sid]
        /\ UNCHANGED engineVars

\* what DisconnectAllSessions does with a negotiating session of its copy
DisconnectNegotiationStep(sid) ==
    (dpc = "closing" /\ sid \in dneg /\ sid \notin dneg') =>
        /\ log' = log
        /\ transport'[sid] = "closed"
        /\ 1000 \in closeCalls'[sid]
        /\ UNCHANGED engineVars

\* C13: DisconnectAllSessions copies both tables; to each active session of
\* the copy it sends the system/server_shutdown frame and then calls
\* Close(1000); on each negotiating session of the copy it calls Close(1000)
\* and sends nothing; it clears the three maps only when both loops are
\* finished. A shutdown frame is the last frame of a session, which was
\* promoted, and no session of the negotiating copy has one.
C13_DisconnectAllOrder ==
    /\ [][(dpc = "idle" /\ dpc' = "closing") =>
              (dactive' = sessions /\ dneg' = negotiationSessions /\ UNCHANGED engineVars)]_vars
    /\ [][\A sid \in SessionIds : DisconnectActiveStep(sid) /\ DisconnectNegotiationStep(sid)]_vars
    /\ [][(dpc = "closing" /\ dpc' = "idle") =>
              /\ dactive = {} /\ dneg = {}
              /\ sessions' = {} /\ negotiationSessions' = {} /\ authenticatedSessions' = <<>>]_vars
    /\ [](\A s \in SessionIds :
            /\ s \in dneg => \A f \in Frames(s) : ~IsShutdown(f)
            /\ \A i \in 1..Len(log[s]) :
                   IsShutdown(log[s][i]) =>
                       /\ i = Len(log[s])
                       /\ s \in promoted
                       /\ 1000 \in closeCalls[s]
                       /\ transport[s] = "closed")

\* both loops are finished and the maps are not cleared yet: the active
\* session got the shutdown frame, the negotiating one only its welcome, and
\* both were closed with 1000
C13_Witness ==
    \E s \in sessions, r \in negotiationSessions :
        /\ dpc = "closing" /\ dactive = {} /\ dneg = {}
        /\ IsShutdown(log[s][Len(log[s])])
        /\ closeCalls[s] = {1000} /\ closeCalls[r] = {1000}
        /\ Len(log[r]) = 1 /\ IsWelcome(log[r][1])

\* the bearer the handler extracts from the request kept for session s
BearerOf(s) == extractBearerToken(request[s].authHeader, request[s].queryParam)
Failed(s) == Connected(s) /\ authErr[s] # None

\* C14: a handshake with no bearer, with no domain or with a bearer that does
\* not authenticate fails; the handler of a failed handshake sends the
\* error/auth_error frame once, calls Close(4001) and returns: it sends
\* nothing else, never authenticates again, and the session is in no table
\* and has no AuthenticatedSession record.
C14_FailedHandshake ==
    /\ [](\A s \in SessionIds :
            /\ (Connected(s) /\ (BearerOf(s) = <<>> \/ request[s].domain = "")) => Failed(s)
            /\ Connected(s) => (Failed(s) <=> pc[s] \in {"autherr", "rejected"})
            /\ Failed(s) =>
                   /\ s \notin Registered
                   /\ s \notin DOMAIN authenticatedSessions
                   /\ authSession[s] = NoAuth
                   /\ tpc[s] = "none"
            /\ pc[s] = "autherr" => (log[s] = <<>> /\ closeCalls[s] = {})
            /\ pc[s] = "rejected" =>
                   /\ closeCalls[s] = {4001}
                   /\ transport[s] = "closed"
                   /\ log[s] \in {<<>>, <<Frame("error", "auth_error", s, None, None)>>})
    /\ [][\A s \in SessionIds :
            /\ (pc[s] = "autherr" /\ pc'[s] # "autherr") =>
                   /\ pc'[s] = "rejected"
                   /\ transport[s] = "open" =>
                          log'[s] = <<Frame("error", "auth_error", s, None, None)>>
            /\ pc[s] = "rejected" =>
                   (pc'[s] = "rejected" /\ log'[s] = log[s] /\ authErr'[s] = authErr[s])]_vars

\* a handshake without a bearer was answered with the auth_error frame and
\* Close(4001)
C14_Witness ==
    \E s \in SessionIds :
        /\ pc[s] = "rejected"
        /\ BearerOf(s) = <<>>
        /\ request[s].domain = "acme.example"
        /\ authErr[s] = "Bearer token required"
        /\ Len(log[s]) = 1 /\ IsAuthError(log[s][1])
        /\ closeCalls[s] = {4001}

IsEcho(f) == f.type = "echo" /\ f.operation = "echo"
EchoCount(l) == Cardinality({i \in 1..Len(l) : IsEcho(l[i])})

\* what the handler of s does with a frame it received
EchoStep(s) ==
    /\ (pc[s] = "recv" /\ pc'[s] = "echo") =>
           (msg'[s] \in Msgs /\ log' = log)
    /\ (pc[s] = "echo" /\ pc'[s] # "echo") =>
           /\ transport[s] = "open" =>
                  /\ log'[s] = Append(log[s], Frame("echo", "echo", s, None, msg[s]))
                  /\ pc'[s] = "recv"
           /\ transport[s] = "closed" => (log'[s] = log[s] /\ pc'[s] = "closed")
           /\ \A r \in SessionIds \ {s} : log'[r] = log[r]
    /\ EchoCount(log'[s]) # EchoCount(log[s]) =>
           /\ pc[s] = "echo" /\ pc'[s] = "recv"
           /\ EchoCount(log'[s]) = EchoCount(log[s]) + 1
    /\ pc[s] = "echo" => msg'[s] = IF pc'[s] = "echo" THEN msg[s] ELSE None

\* C15: the handler echoes each frame it receives before it receives the
\* next one: the step after Recv returned X appends one echo/echo frame with
\* data X to the log of the same session and of no other, and no echo frame
\* is sent by any other step, so the echoes are as many as the frames
\* received and in their order. The Send fails only on a transport that was
\* closed in between, and the handler leaves the loop.
C15_EchoOncePerFrame ==
    /\ [][\A s \in SessionIds : EchoStep(s)]_vars
    /\ [](\A s \in SessionIds :
            /\ pc[s] = "echo" <=> msg[s] \in Msgs
            /\ \A f \in Frames(s) : IsEcho(f) => (f.sessionId = s /\ f.data \in Msgs))

\* an active session received "hi" and then the empty frame, and got the two
\* echoes in that order
C15_Witness ==
    \E s \in sessions : \E i \in 1..Len(log[s]) :
        /\ i + 1 = Len(log[s])
        /\ IsEcho(log[s][i]) /\ log[s][i].data = "hi"
        /\ IsEcho(log[s][i + 1]) /\ log[s][i + 1].data = ""
        /\ pc[s] = "recv"

\* the number of "|" in a bearer
Separators(b) == Cardinality({i \in 1..Len(b) : b[i] = "|"})
\* the handler of s called authenticateTokenForDomain
Authenticated(s) == Connected(s) /\ BearerOf(s) # <<>> /\ request[s].domain # ""
\* the tenants of the landlord table with the domain of the request of s
TenantsOfDomain(s) == {row.Name : row \in {x \in TenantRows : x.Domain = request[s].domain}}

\* C16 as stated: every bearer with no "|" or with two or more fails with
\* the malformed-bearer error.
C16_AsStated ==
    \A s \in SessionIds :
        (Authenticated(s) /\ Separators(BearerOf(s)) # 1) =>
            authErr[s] = "invalid token format"

\* C16: authentication of a bearer with no "|" or with two or more always
\* fails and creates no session; the error is the malformed-bearer one when
\* the domain resolves to a tenant that has a database handle, and the
\* tenant-not-found or no-connection error, which the code reaches first,
\* when it does not.
C16_MalformedBearer ==
    \A s \in SessionIds :
        (Authenticated(s) /\ Separators(BearerOf(s)) # 1) =>
            /\ Failed(s)
            /\ authSession[s] = NoAuth
            /\ s \notin Registered /\ s \notin DOMAIN authenticatedSessions
            /\ authErr[s] =
                   IF TenantsOfDomain(s) = {} THEN "tenant not found"
                   ELSE IF TenantsOfDomain(s) \cap tenantDBs = {}
                        THEN "database connection not found"
                        ELSE "invalid token format"

\* a bearer with two "|" whose first two parts are a valid token of the
\* tenant of the domain was rejected as malformed
C16_Witness ==
    \E s \in SessionIds :
        /\ pc[s] = "rejected"
        /\ BearerOf(s) = <<"7", "|", "S", "|", "S">>
        /\ request[s].domain = "acme.example"
        /\ authErr[s] = "invalid token format"

\* the bearer that names a row of a token store: its id, "|", its secret
DigitText(n) == CHOOSE c \in Digits : DigitVal(c) = n
BearerNaming(row) == <<DigitText(row.ID), "|">> \o Tail(row.Token)
\* the tenant the domain of the request of s resolves to, when it has a handle
TenantOfRequest(s) == TenantsOfDomain(s) \cap tenantDBs
\* the rows the bearer of s names in the store of that tenant, and in the
\* stores of the other tenants
RowsNamed(s) ==
    {row \in UNION {TokenRows(x) : x \in TenantOfRequest(s)} : BearerNaming(row) = BearerOf(s)}
RowsNamedElsewhere(s) ==
    {row \in UNION {TokenRows(x) : x \in TenantNames \ TenantOfRequest(s)} :
        BearerNaming(row) = BearerOf(s)}
RejectedCleanly(s) ==
    /\ pc[s] \in {"autherr", "rejected"}
    /\ authSession[s] = NoAuth
    /\ s \notin Registered /\ s \notin DOMAIN authenticatedSessions
    /\ pc[s] = "rejected" =>
           /\ closeCalls[s] = {4001}
           /\ log[s] \in {<<>>, <<Frame("error", "auth_error", s, None, None)>>}

\* C17: a handshake whose bearer names a token row with expires_at set and
\* before the time of the handshake fails with the expired error, gets the
\* auth_error frame and Close(4001) and registers no session; one whose row
\* has no expires_at, or one that is not before the time of the handshake,
\* is authenticated with that row.
C17_ExpiredToken ==
    \A s \in SessionIds : \A row \in RowsNamed(s) :
        Authenticated(s) =>
            IF row.ExpiresAt # NoExpiry /\ row.ExpiresAt < request[s].now
            THEN authErr[s] = "token expired" /\ RejectedCleanly(s)
            ELSE /\ authErr[s] = None
                 /\ authSession[s].TokenID = row.ID
                 /\ authSession[s].UserID = row.TokenableID
                 /\ authSession[s].ExpiresAt = row.ExpiresAt

\* a handshake with a token that expired at 1, made at a later time, was
\* rejected with the auth_error frame and Close(4001)
C17_Witness ==
    \E s \in SessionIds :
        /\ pc[s] = "rejected"
        /\ BearerOf(s) = <<"8", "|", "T">>
        /\ request[s].now > 1
        /\ authErr[s] = "token expired"
        /\ log[s] = <<Frame("error", "auth_error", s, None, None)>>
        /\ closeCalls[s] = {4001}

\* C18: a bearer that names a token row of one tenant, presented with the
\* domain of another tenant whose store (reachable) has no such row, fails
\* with the token-not-found error; the session gets no AuthenticatedSession,
\* of either tenant, and is never registered.
C18_WrongTenantDomain ==
    \A s \in SessionIds :
        (Authenticated(s) /\ TenantOfRequest(s) # {} /\ RowsNamed(s) = {}
                          /\ RowsNamedElsewhere(s) # {}) =>
            /\ authErr[s] = "token not found"
            /\ RejectedCleanly(s)

\* the token 7|S of acme was presented with the domain of globex, which has a
\* token 7 with another secret, and was rejected
C18_Witness ==
    \E s \in SessionIds :
        /\ pc[s] = "rejected"
        /\ BearerOf(s) = <<"7", "|", "S">>
        /\ request[s].domain = "globex.example"
        /\ authErr[s] = "token not found"
        /\ authSession[s] = NoAuth

\* the emission stamps of the change events in the log of s, in log order
PublicationAt(s, i) == IsPublication(log[s][i])
StampAt(s, i) == log[s][i].data.DBTimestamp

\* C19: the notifications of one tenant wait in emission order, the listener
\* hands the one that has waited longest to the fan-out, and it takes the next
\* one only when the fan-out of the one before has returned; so the events a
\* session receives from its tenant are in the order of their emission.
C19_PerTenantOrder ==
    /\ \A s \in SessionIds : \A i \in 1..Len(log[s]) : \A j \in 1..Len(log[s]) :
           (i < j /\ PublicationAt(s, i) /\ PublicationAt(s, j)
                  /\ log[s][i].tenant_name = log[s][j].tenant_name) =>
               StampAt(s, i) < StampAt(s, j)
    /\ \A t \in ConnectedTenants :
           /\ \A i \in 1..Len(channel[t]) : \A j \in 1..Len(channel[t]) :
                  i < j => channel[t][i].timestamp < channel[t][j].timestamp
           /\ lpc[t] = "loop" =>
                  \A i \in 1..Len(channel[t]) : lmessage[t].DBTimestamp < channel[t][i].timestamp

\* a session received two events of its tenant, the one emitted first before
\* the one emitted second
C19_Witness ==
    \E s \in sessions : \E i \in 1..Len(log[s]) :
        /\ i + 1 = Len(log[s])
        /\ PublicationAt(s, i) /\ PublicationAt(s, i + 1)
        /\ log[s][i].tenant_name = log[s][i + 1].tenant_name
        /\ StampAt(s, i) + 1 = StampAt(s, i + 1)
        /\ log[s][i].operation = "DELETE" /\ log[s][i + 1].operation = "INSERT"

\* what one turn of the fan-out loop of tenant t does
FanoutTurn(t) ==
    \A sid \in SessionIds :
        (lpc[t] = "loop" /\ sid \in lsessions[t] /\ sid \notin lsessions'[t]) =>
            /\ \A r \in SessionIds \ {sid} : log'[r] = log[r]
            /\ \/ log'[sid] = log[sid]
               \/ /\ transport[sid] = "open"
                  /\ log'[sid] = Append(log[sid], Frame("publication", lmessage[t].Operation,
                                                        sid, t, lmessage[t]))
            /\ (transport[sid] = "closed" /\ sid \in DOMAIN lauth[t]
                                          /\ lauth[t][sid].TenantName = t) =>
                   (sid \notin sessions' /\ sid \notin DOMAIN authenticatedSessions')

\* a session the fan-out of its tenant removes after a failed Send is off
\* the loop
FailedTurn(t) ==
    \A sid \in SessionIds :
        (lpc[t] = "loop" /\ sid \in lsessions[t] /\ sid \in DOMAIN lauth[t]
                        /\ lauth[t][sid].TenantName = t
                        /\ sid \in sessions /\ sid \notin sessions' /\ pc'[sid] = pc[sid]) =>
            sid \notin lsessions'[t]

\* C20: the fan-out visits each session of its copy once: a turn of the loop
\* sends the event to one session at most once and takes the session off the
\* loop whether the Send succeeded or failed; nothing is put back, and when
\* the loop ends the event is dropped. No session has the same event twice.
C20_AtMostOnce ==
    /\ [][\A t \in ConnectedTenants :
            /\ FanoutTurn(t)
            /\ FailedTurn(t)
            /\ lpc[t] = "loop" =>
                   /\ lsessions'[t] \subseteq lsessions[t]
                   /\ lpc'[t] = "loop" => lmessage'[t] = lmessage[t]]_vars
    /\ [](\A t \in ConnectedTenants :
            lpc[t] = "idle" => (lmessage[t] = NoMessage /\ lsessions[t] = {}))
    /\ [](\A s \in SessionIds : \A i \in 1..Len(log[s]) : \A j \in 1..Len(log[s]) :
            (i # j /\ PublicationAt(s, i) /\ PublicationAt(s, j)) =>
                StampAt(s, i) # StampAt(s, j))

\* the Send of an event to an active session failed: the fan-out removed the
\* session, whose handler has not seen the closed transport yet, the
\* listener is back in its select with nothing waiting, and the session
\* never got the event
C20_Witness ==
    \E s \in promoted :
        /\ transport[s] = "closed"
        /\ pc[s] = "recv"
        /\ s \notin sessions /\ s \notin DOMAIN authenticatedSessions
        /\ \A i \in 1..Len(log[s]) : ~PublicationAt(s, i)
        /\ \A t \in ConnectedTenants : lpc[t] = "idle" /\ channel[t] = <<>>
        /\ nevents = MaxEvents

\* ------------------------------------------------------ malformed payloads
\* the listener of tenant t takes a notification in this step
TakeStep(t) == taken'[t] # taken[t]
LastTaken(q) == q[Len(q)]

\* C23: a notification whose payload does not parse as a PostgreSQLNotification
\* is dropped: the step that takes it sends no frame to any session and leaves
\* the listener in its select, with the notifications behind it still
\* waiting; the well-formed notification taken next is handed to the fan-out
\* as any other, with the message built from it.
C23_MalformedDropped ==
    [][\A t \in ConnectedTenants :
          /\ (TakeStep(t) /\ ~LastTaken(taken'[t]).json) =>
                 /\ log' = log
                 /\ UNCHANGED listenerVars
                 /\ lpc'[t] = "idle"
                 /\ channel'[t] = Tail(channel[t])
          /\ (TakeStep(t) /\ taken[t] # <<>> /\ ~LastTaken(taken[t]).json
                          /\ LastTaken(taken'[t]).json /\ sessions # {}) =>
                 /\ lpc'[t] = "loop"
                 /\ lmessage'[t] = PublicationMessage(t, LastTaken(taken'[t]))
                 /\ lsessions'[t] = sessions]_vars

\* the listener of a tenant took a malformed notification and then a
\* well-formed one, and an active session of the tenant has the event of the
\* second and nothing of the first
C23_Witness ==
    \E t \in ConnectedTenants : \E s \in sessions :
        /\ Len(taken[t]) = 2
        /\ ~taken[t][1].json /\ taken[t][2].json
        /\ \E i \in 1..Len(log[s]) :
              /\ PublicationAt(s, i)
              /\ log[s][i].tenant_name = t
              /\ StampAt(s, i) = taken[t][2].timestamp
        /\ \A i \in 1..Len(log[s]) :
              PublicationAt(s, i) => StampAt(s, i) # taken[t][1].timestamp
        /\ lpc[t] = "idle"

\* ------------------------------------------------------------ required rows
\* the row of a notification as the event carries it
RowSent(raw) == IF raw \in {Absent, BadShape} THEN None ELSE raw
NameSent(raw) == IF raw \in {Absent, BadShape} THEN "unknown" ELSE raw

\* the notification the listener of tenant t took that was emitted at stamp
NotificationsAt(t, stamp) ==
    {taken[t][k] : k \in {j \in 1..Len(taken[t]) : taken[t][j].timestamp = stamp}}

VisitStep(t, sid) == lpc[t] = "loop" /\ sid \in lsessions[t] /\ sid \notin lsessions'[t]
\* the Send of the fan-out of tenant t to sid fails
SendFails(t, sid) ==
    /\ sid \in DOMAIN lauth[t]
    /\ Authorized(lauth[t][sid], lmessage[t])
    /\ transport[sid] = "closed"

\* C29 as stated: the fan-out removes sessions only once its send loop is
\* over, all the failed ones together, and the sessions whose Send succeeded
\* stay in the active table.
C29_AsStated ==
    [][\A t \in ConnectedTenants : \A sid \in SessionIds :
          VisitStep(t, sid) =>
              /\ lpc'[t] = "loop" =>
                     (sessions' = sessions /\ authenticatedSessions' = authenticatedSessions)
              /\ ~SendFails(t, sid) => sessions' = sessions]_vars

\* C29: a session whose Send fails is removed from the active table and the
\* auth records in the very turn of the loop that visited it, under a write
\* lock taken for that session alone, whether or not the loop has sessions
\* left to visit; nothing else is removed in that turn, and a turn whose Send
\* succeeded, or that skipped the session, removes nothing.
C29_RemovedInLoop ==
    [][\A t \in ConnectedTenants : \A sid \in SessionIds :
          VisitStep(t, sid) =>
              IF SendFails(t, sid)
              THEN /\ sessions' = sessions \ {sid}
                   /\ DOMAIN authenticatedSessions' = DOMAIN authenticatedSessions \ {sid}
                   /\ negotiationSessions' = negotiationSessions
              ELSE /\ sessions' = sessions
                   /\ authenticatedSessions' = authenticatedSessions
                   /\ negotiationSessions' = negotiationSessions]_vars

\* the fan-out is in its loop with a session left to visit, and the session
\* it visited before, whose Send failed, is already out of both tables though
\* its handler has not seen the closed transport
C29_Witness ==
    \E t \in ConnectedTenants : \E s \in promoted :
        /\ lpc[t] = "loop"
        /\ lsessions[t] # {}
        /\ s \notin lsessions[t]
        /\ s \in DOMAIN lauth[t] /\ lauth[t][s].TenantName = t
        /\ transport[s] = "closed"
        /\ pc[s] = "recv"
        /\ s \notin sessions /\ s \notin DOMAIN authenticatedSessions

\* ------------------------------------------------------ I/O under the lock
\* the reaper sends its ping to a session in this step
PingStep == \E sid \in zrest : zrest' = zrest \ {sid}
\* BroadcastSystemMessage sends to a session of its copy in this step
BroadcastSendStep == bpc = "loop" /\ \E sid \in bsnap : bsnap' = bsnap \ {sid}

\* C28 as stated: no operation calls Send on a transport while it holds the
\* engine lock; the broadcast and the reaper sweep send only after they have
\* released it.
C28_AsStated ==
    [][(PingStep \/ BroadcastSendStep) => mutex = "free"]_vars

\* ------------------------------------------------ listeners and startup
\* tenant t has a running listener goroutine
ListenerRunning(t) == listener[t] \in {"starting", "listening"}
\* the startup is over: main serves and startPublicationListeners has returned
StartupOver == mainpc = "serving" /\ splpc \in {"done", "failed"}

\* C21 as stated: after the idle ping of a tenant's listener has failed, a
\* listener for that tenant eventually runs again, and the notifications of
\* the tenant that wait are eventually taken.
C21_AsStated ==
    \A t \in ConnectedTenants :
        /\ (listener[t] = "exited") ~> ListenerRunning(t)
        /\ (listener[t] = "exited" /\ channel[t] # <<>>) ~> (channel[t] = <<>>)

\* C22 as stated: once the startup is over, a tenant has a running listener
\* if and only if the engine holds a database handle for it.
C22_AsStated ==
    StartupOver => \A t \in ConnectedTenants : ListenerRunning(t) <=> t \in tenantDBs

\* C24 as stated: the health response is "degraded" with 503 when the
\* landlord database was unreachable at the request, and "healthy" with 200
\* when it answered.
C24_AsStated ==
    health # NoHealth =>
        /\ ~health.landlordUp => (health.status = "degraded" /\ health.code = 503)
        /\ health.landlordUp => (health.status = "healthy" /\ health.code = 200)

\* C25 as stated: the process ends at startup only when the HTTP server
\* cannot be started; no database failure ends it.
C25_AsStated == mainpc \in Fatal => mainpc = "fatal_http"

\* C25: a tenant database that does not answer never ends the process: it is
\* skipped, and main goes on with the handles of the tenants that answered.
\* The process ends at startup in three cases only: the landlord database
\* does not answer the ping of connectToLandlord, the tenant query of
\* loadTenantDatabases fails, or the HTTP server cannot be started.
C25_OnlyLandlordOrHTTPFatal ==
    [][/\ (mainpc = "load" /\ landlordUp) =>
              /\ mainpc' \in {"load", "spawn"}
              /\ tenantDBs' \subseteq ConnectedTenants
       /\ (mainpc \notin Fatal /\ mainpc' \in Fatal) =>
              \/ mainpc = "connect" /\ ~landlordUp /\ mainpc' = "fatal_landlord"
              \/ mainpc = "load" /\ ~landlordUp /\ mainpc' = "fatal_tenants"
              \/ mainpc = "listen" /\ mainpc' = "fatal_http"
       /\ mainpc \in Fatal => mainpc' = mainpc]_vars

\* main serves with the handle of one tenant only: the other tenants did not
\* answer at startup and were skipped
C25_Witness ==
    /\ mainpc = "serving"
    /\ landlordDB
    /\ tenantDBs = {"acme"}

\* --------------------------------------------------------- the token cache
\* the call that ended last was served from the cache
ServedFromCache == lastAuth.hit
\* an authenticate call ends in this step with another result than the last
CallStep == lastAuth' # lastAuth

\* C26: a call served from the cache succeeds, and the time of the call is
\* before the cache expiry of the entry it was served from and, when the token
\* has an expiry, before that too, that is, before the smaller of the two; and
\* no entry of the cache has a cache expiry after the expiry of its token.
C26_NoStaleHit ==
    /\ ServedFromCache =>
           /\ lastAuth.ok
           /\ lastAuth.at < lastAuth.entry.cache_expires_at
           /\ lastAuth.entry.expires_at # NoExpiry =>
                  /\ lastAuth.at < lastAuth.entry.expires_at
                  /\ lastAuth.at < Min(lastAuth.entry.expires_at,
                                       lastAuth.entry.cache_expires_at)
    /\ \A e \in tokenCache :
           e.expires_at # NoExpiry => e.cache_expires_at <= e.expires_at

\* a call was served from an entry inserted a tick before, while the cache
\* also holds the entry of a token whose own expiry cut the cache expiry short
C26_Witness ==
    /\ ServedFromCache
    /\ lastAuth.at = 1
    /\ lastAuth.entry.cache_expires_at = 2
    /\ \E e \in tokenCache :
          /\ e.expires_at = 1
          /\ e.cache_expires_at = 1
          /\ e.cache_expires_at < 0 + CacheTTL

\* C27: a call that fails leaves the cache as it was; an entry comes into the
\* cache only with a call that the tenant database has just validated, it is
\* the entry of a row of that tenant's token store, and the token was not
\* expired at the time of the call; entries leave the cache only when they are
\* replaced by such a call or swept after their cache expiry.
C27_PositiveOnly ==
    [][/\ (CallStep /\ ~lastAuth'.ok) => tokenCache' = tokenCache
       /\ \A e \in tokenCache' \ tokenCache :
             /\ lastAuth'.ok /\ ~lastAuth'.hit
             /\ lastAuth'.entry = e
             /\ lastAuth'.key = EntryKey(e)
             /\ \E r \in TokenRows(e.tenant_name) :
                   /\ r.ID = e.token_id
                   /\ r.Token = e.opaque_hash
                   /\ r.ExpiresAt = e.expires_at
             /\ e.expires_at = NoExpiry \/ clock <= e.expires_at
       /\ \A e \in tokenCache \ tokenCache' :
             \/ clock > e.cache_expires_at
             \/ \E f \in tokenCache' \ tokenCache : EntryKey(f) = EntryKey(e)]_vars

\* the call for a token that had expired failed, at a time when the cache
\* held entries of other tokens, and the cache has no entry for it
C27_Witness ==
    /\ ~lastAuth.ok
    /\ lastAuth.key # NoKey
    /\ lastAuth.key[2] = 8
    /\ lastAuth.at = 2
    /\ clock = 2
    /\ tokenCache # {}
    /\ \A e \in tokenCache : EntryKey(e) # lastAuth.key

\* ------------------------------------------------ the stamp of the fan-out
\* C31: every change-event frame a session has received carries the id of
\* that session; when one event goes to several sessions each of them gets it
\* under its own id.
C31_StampedWithOwnId ==
    \A s \in SessionIds : \A f \in Frames(s) :
        IsPublication(f) => f.sessionId = s

\* one event has been fanned out to two sessions, and each of the two frames
\* carries the id of the session that received it
C31_Witness ==
    \E s \in SessionIds, r \in SessionIds :
        /\ s # r
        /\ \E f \in Frames(s), g \in Frames(r) :
              /\ IsPublication(f) /\ IsPublication(g)
              /\ f.data = g.data
              /\ f.sessionId = s /\ g.sessionId = r

\* ------------------------------------------------- the update of last_used_at
\* the rows the last call of validateTokenInTenant found
RowsFound == queryToken(validation.tenant, validation.tokenID, validation.hashedToken)
\* the last call found its row, and the row was not expired at its time
FoundUnexpired ==
    /\ validation.called
    /\ RowsFound # {}
    /\ \A r \in RowsFound : r.ExpiresAt = NoExpiry \/ ~(r.ExpiresAt < validation.now)

\* C32: a call of validateTokenInTenant that finds the row, not expired,
\* succeeds whether the UPDATE of last_used_at succeeds or fails, and returns
\* the session of that row: the same one as a call whose UPDATE succeeds.
C32_LastUsedBestEffort ==
    FoundUnexpired =>
        /\ validation.ok
        /\ validation.session =
               SessionOf(validateTokenInTenantExec(validation.tenant, validation.tokenID,
                                                   validation.hashedToken, validation.now, FALSE))
        /\ \A r \in RowsFound :
              /\ validation.session.TenantName = validation.tenant
              /\ validation.session.UserID = r.TokenableID
              /\ validation.session.TokenID = r.ID
              /\ validation.session.ExpiresAt = r.ExpiresAt

\* a call whose UPDATE failed returned the session of its row, whose
\* last_used_at is still unset, while an earlier call has set the last_used_at
\* of another row
C32_Witness ==
    /\ FoundUnexpired
    /\ validation.execErr
    /\ validation.ok
    /\ validation.session.UserID = 43
    /\ lastUsedAt[<<validation.tenant, validation.tokenID>>] = NeverUsed
    /\ \E k \in TokenKeys : lastUsedAt[k] # NeverUsed

\* ------------------------------------------------------ orphan auth records
\* C33: every AuthenticatedSession record belongs to a session id that is in
\* the negotiating or the active table, and every step that takes a session id
\* out of the tables (timeout, reaper, failed Send of a broadcast or of a
\* fan-out, cleanup by the handler, disconnect_all) takes its record out too.
C33_NoOrphanRecords ==
    /\ [](DOMAIN authenticatedSessions \subseteq Registered)
    /\ [][\A s \in Registered :
             s \notin (sessions' \cup negotiationSessions') =>
                 s \notin DOMAIN authenticatedSessions']_vars

\* an active session was taken out of the tables by a broadcast whose Send to
\* it failed, another one by its negotiation timeout, neither by its handler,
\* and no record is left
C33_Witness ==
    \E s \in promoted, r \in SessionIds \ promoted :
        /\ pc[s] = "recv" /\ transport[s] = "closed"
        /\ \A i \in 1..Len(log[s]) : ~IsPingFrame(log[s][i])
        /\ bpc = "idle" /\ nevents = MaxEvents
        /\ s \notin Registered
        /\ tpc[r] \in {"closing", "timedout"}
        /\ r \notin Registered
        /\ authenticatedSessions = <<>>

\* ------------------------------------------------------- the lifecycle
\* the handler of s has registered it (the timer starts with the registration)
EverRegistered(s) == tpc[s] # "none"

\* C34: a session id enters the negotiating table only by the registration of
\* its handler, which happens once, before it was ever in a table; it enters
\* the active table only by leaving the negotiating table in the same step,
\* once; so an id that left the tables never comes back to either, and an
\* active id never becomes negotiating, whatever frames arrive afterwards.
C34_MonotoneLifecycle ==
    [][\A s \in SessionIds :
          /\ (s \notin negotiationSessions /\ s \in negotiationSessions') =>
                 /\ pc[s] = "register"
                 /\ ~EverRegistered(s)
                 /\ s \notin sessions /\ s \notin promoted
          /\ (s \notin sessions /\ s \in sessions') =>
                 /\ s \in negotiationSessions /\ s \notin negotiationSessions'
                 /\ s \notin promoted /\ s \in promoted'
          /\ s \in sessions => s \notin negotiationSessions'
          /\ (EverRegistered(s) /\ s \notin Registered) =>
                 (s \notin sessions' /\ s \notin negotiationSessions')]_vars

\* the handler of a session the timeout removed has received a frame sent
\* afterwards and goes on to echo it: the session is in no table, while the
\* other session, promoted by its first frame, is active
C34_Witness ==
    \E s \in SessionIds, r \in sessions :
        /\ tpc[s] = "closing"
        /\ pc[s] = "echo"
        /\ s \notin Registered /\ s \notin promoted
        /\ r \in promoted /\ pc[r] = "recv"

\* ------------------------------------------- disconnect_all and registrations
\* C35 as stated: every session id the final section of DisconnectAllSessions
\* deletes from the tables has had its transport closed.
C35_AsStated ==
    [][(dpc = "closing" /\ dpc' = "idle") =>
           \A s \in Registered \cup DOMAIN authenticatedSessions :
               transport'[s] = "closed"]_vars

\* --------------------------------------------- frames after the timeout
\* the negotiation timeout removed s from the negotiating table
TimedOut(s) == tpc[s] \in {"closing", "timedout"}

\* C36: a session the negotiation timeout removed is not in the active table
\* and never was, whether its first frame is received before the timeout
\* closes the transport or after, and it has received no broadcast and no
\* change event; no step puts it into a table.
C36_NoPromotionAfterTimeout ==
    /\ [](\A s \in SessionIds :
             TimedOut(s) =>
                 /\ s \notin sessions /\ s \notin promoted
                 /\ s \notin bsnap
                 /\ \A t \in ConnectedTenants : s \notin lsessions[t]
                 /\ \A f \in Frames(s) : ~IsBroadcast(f) /\ ~IsPublication(f))
    /\ [][\A s \in SessionIds :
             TimedOut(s) => (s \notin sessions' /\ s \notin negotiationSessions')]_vars

\* the timeout removed a session whose first frame was on its way: the handler
\* received it after the removal, did not promote the session and echoed the
\* frame, and a broadcast sent since went to the other session only
C36_Witness ==
    \E s \in SessionIds, r \in promoted :
        /\ TimedOut(s)
        /\ pc[s] = "recv"
        /\ \E f \in Frames(s) : IsEcho(f)
        /\ s \notin promoted
        /\ \E f \in Frames(r) : IsBroadcast(f)
        /\ bpc = "idle"

\* ------------------------------------------------ echoes outside the tables
\* C37 as stated: an echo frame is sent only to a session that is in the
\* active table at the time of the Send.
C37_AsStated ==
    [][\A s \in SessionIds :
          EchoCount(log'[s]) > EchoCount(log[s]) => s \in sessions]_vars

\* ------------------------------------------------- the session-count response
\* GetSessionsCount has responded
Responded == cpc = "idle" /\ counts.status = "success"
\* the sessions that were registered from the first read of the request to its
\* last (a session that leaves the tables does not come back)
RegisteredThroughout == cseen.start \cap cseen.end

\* C38 as stated: in every response of the session-count endpoint the total is
\* the sum of the active and the negotiating count, and every session that was
\* registered throughout the request is counted once, as active or as
\* negotiating.
C38_AsStated ==
    Responded =>
        /\ counts.total_sessions = counts.active_sessions + counts.negotiation_sessions
        /\ \A s \in RegisteredThroughout :
              (s \in cseen.active) # (s \in cseen.negotiation)

\* ------------------------------------------- the precedence of the errors
\* the tenants of the landlord table with the domain of the last call
TenantsOfCall == {row.Name : row \in {x \in TenantRows : x.Domain = authCall.domain}}
\* the text of the bearer before its first "|"
IdText(b) ==
    IF Separators(b) = 0 THEN b
    ELSE SubSeq(b, 1, (CHOOSE i \in 1..Len(b) :
                          b[i] = "|" /\ \A j \in 1..(i-1) : b[j] # "|") - 1)
\* a decimal number, with or without sign
Numeric(x) ==
    LET body == IF x # <<>> /\ x[1] \in {"+", "-"} THEN Tail(x) ELSE x
    IN body # <<>> /\ \A i \in 1..Len(body) : body[i] \in Digits

\* C39: a call of authenticateTokenForDomain fails with the tenant-not-found
\* error when no tenant has the domain and with the no-connection error when
\* the tenant has no database handle, whatever the bearer looks like; only
\* then is the bearer looked at, a bearer without exactly two parts failing as
\* malformed and one with a non-numeric id as such; and the token store is
\* queried only for a bearer with exactly two parts and a numeric id, in the
\* store of the tenant of the domain.
C39_ErrorPrecedence ==
    authCall.called =>
        /\ TenantsOfCall = {} =>
               (~authCall.ok /\ authCall.err = "tenant not found" /\ authCall.queries = {})
        /\ (TenantsOfCall # {} /\ TenantsOfCall \cap tenantDBs = {}) =>
               /\ ~authCall.ok
               /\ authCall.err = "database connection not found"
               /\ authCall.queries = {}
        /\ (TenantsOfCall \cap tenantDBs # {} /\ Separators(authCall.bearerToken) # 1) =>
               (~authCall.ok /\ authCall.err = "invalid token format" /\ authCall.queries = {})
        /\ (/\ TenantsOfCall \cap tenantDBs # {}
            /\ Separators(authCall.bearerToken) = 1
            /\ ~Numeric(IdText(authCall.bearerToken))) =>
               (~authCall.ok /\ authCall.err = "invalid token ID" /\ authCall.queries = {})
        /\ authCall.queries # {} =>
               /\ Separators(authCall.bearerToken) = 1
               /\ Numeric(IdText(authCall.bearerToken))
               /\ \A q \in authCall.queries : q[1] \in TenantsOfCall \cap tenantDBs
               /\ authCall.err \in {None, "token not found", "token expired"}

\* a bearer without "|" presented with the domain of a tenant that has no
\* database handle failed with the no-connection error, and no store was
\* queried for it, while an earlier call has queried a store and marked its
\* token as used
C39_Witness ==
    /\ authCall.called
    /\ authCall.bearerToken = <<"7", "S">>
    /\ authCall.domain = "initech.example"
    /\ authCall.err = "database connection not found"
    /\ authCall.queries = {}
    /\ \E k \in TokenKeys : lastUsedAt[k] # NeverUsed

====
